---- MODULE Spec2Model ----
(***************************************************************************)
(* Fleet routing optimisation engine of RouteX (backend/app/services):      *)
(* the route candidate generator (route_generator.py) and the CP-SAT model  *)
(* builder, solver call and result extractor (cp_sat_optimizer.py).         *)
(*                                                                          *)
(* Number representation.  The program computes with floats; the model      *)
(* holds every quantity as an exact integer in a fixed unit:                *)
(*   times            hundredths of an hour (1/2400 day): 0.4 day = 960     *)
(*   money            hundredths of a rupee                                 *)
(*   vessel capacity, cargo flow     whole MT (the solver variable is int)  *)
(*   demand, delivered mass, cargo split   tenths of an MT                  *)
(*   percentages      whole percent, truncated                              *)
(* Python's round() is modelled by RoundDiv (round half to even), int() by  *)
(* integer division of a non-negative value.                                *)
(***************************************************************************)
EXTENDS Integers, Sequences, FiniteSets, TLC

VARIABLES
    settings,               \* attribute names the HPCLSettings instance carries
    vessels,                \* argument: list of HPCLVessel
    loading_ports,          \* argument: list of HPCLPort
    unloading_ports,        \* argument: list of HPCLPort
    demand_dict,            \* {d.port_id: d.demand_mt for d in monthly_demands}
    optimization_objective, \* argument
    fuel_price_per_mt,      \* argument
    pc,                     \* position of the call
    generated_routes,       \* HPCLRouteGenerator.generated_routes
    feasible_routes,        \* optimize_hpcl_fleet's local feasible_routes
    model,                  \* self.model with its variables and constraints
    solver_status,          \* status returned by self.solver.Solve
    solution,               \* values held by self.solver after Solve
    result                  \* the OptimizationResult returned

\* one use of InfeasibilityAnalyzer.generate_all_suggestions
VARIABLES
    analyzer,               \* the InfeasibilityAnalyzer: self.vessels, self.demands
    suggestion_call,        \* arguments solve_time, num_workers, port_distances
    analyzer_pc,            \* "idle", "called", "returned" or "raised"
    all_suggestions         \* the list generate_all_suggestions returned

run_vars == <<settings, vessels, loading_ports, unloading_ports, demand_dict,
              optimization_objective, fuel_price_per_mt, pc, generated_routes,
              feasible_routes, model, solver_status, solution, result>>

\* runs of optimize_hpcl_fleet started on the module-level optimizer
VARIABLES
    hpcl_cp_sat_optimizer,  \* the attributes of the one HPCLCPSATOptimizer
    tasks,                  \* per background task: position, locals, what it read
    event_loop              \* the task the event loop is executing, 0 for none

\* one call of calculate_trip_time_from_tables
VARIABLES
    trip_call,              \* its four arguments
    trip_pc,                \* "idle", "called" or "returned"
    trip_time               \* the value returned

\* one construction of an input record (models/schemas.py)
VARIABLES
    record_call,            \* the model class and the field values passed
    record_pc               \* "idle", "called", "constructed" or "raised"

\* background optimization tasks (api/routes.py) and their TaskDB records
VARIABLES
    db_connected,           \* db.database is set: records go to the database
    db_tasks,               \* the tasks collection: task id -> record
    background_pc           \* per task, the position of its background run

analyzer_vars == <<analyzer, suggestion_call, analyzer_pc, all_suggestions>>

singleton_vars == <<hpcl_cp_sat_optimizer, tasks, event_loop>>

trip_vars == <<trip_call, trip_pc, trip_time>>

validation_vars == <<record_call, record_pc>>

background_vars == <<db_connected, db_tasks, background_pc>>

\* the API layer around the optimizer: input records and task bookkeeping
entry_vars == <<validation_vars, background_vars>>

\* what one call of optimize_hpcl_fleet on an optimizer of its own does not touch
outside_run == <<analyzer_vars, singleton_vars, trip_vars, entry_vars>>

vars == <<run_vars, outside_run>>

\* Python's None, where a record or None is expected
None == [none |-> TRUE]

\* no analyzer has been constructed
AnalyzerIdle ==
    /\ analyzer = None
    /\ suggestion_call = None
    /\ analyzer_pc = "idle"
    /\ all_suggestions = <<>>

\* no task has been started on the module-level optimizer
SingletonIdle ==
    /\ hpcl_cp_sat_optimizer = None
    /\ tasks = <<>>
    /\ event_loop = 0

\* calculate_trip_time_from_tables has not been called
TripIdle ==
    /\ trip_call = None
    /\ trip_pc = "idle"
    /\ trip_time = 0

\* no input record is being constructed
ValidationIdle ==
    /\ record_call = None
    /\ record_pc = "idle"

\* no background task has been submitted
BackgroundIdle ==
    /\ db_connected = FALSE
    /\ db_tasks = <<>>
    /\ background_pc = <<>>

EntryIdle == ValidationIdle /\ BackgroundIdle

\* nothing but the call of optimize_hpcl_fleet or of the generator is under way
OutsideIdle == AnalyzerIdle /\ SingletonIdle /\ TripIdle /\ EntryIdle

(***************************************************************************)
(* Generic helpers                                                         *)
(***************************************************************************)
Max(a, b) == IF a >= b THEN a ELSE b

Min(a, b) == IF a <= b THEN a ELSE b

\* round(a / b) for a >= 0, b > 0: Python rounds half to even
RoundDiv(a, b) ==
    LET q == a \div b
        r == a % b
    IN  IF 2 * r < b THEN q
        ELSE IF 2 * r > b THEN q + 1
        ELSE IF q % 2 = 0 THEN q ELSE q + 1

RECURSIVE SumSeq(_)
SumSeq(s) == IF s = <<>> THEN 0 ELSE Head(s) + SumSeq(Tail(s))

RECURSIVE SumOver(_, _)
\* sum of f[x] over the finite set S
SumOver(S, f) ==
    IF S = {} THEN 0
    ELSE LET x == CHOOSE y \in S : TRUE IN f[x] + SumOver(S \ {x}, f)

RECURSIVE Flatten(_)
\* concatenation of a sequence of sequences
Flatten(ss) == IF ss = <<>> THEN <<>> ELSE Head(ss) \o Flatten(Tail(ss))

SeqRange(s) == {s[i] : i \in 1..Len(s)}

Ids(ports) == [i \in 1..Len(ports) |-> ports[i].id]

(***************************************************************************)
(* Trip-time tables (data/challenge_data.py): days in the source,         *)
(* hundredths of an hour here.                                             *)
(***************************************************************************)
TRIP_TIMES_LOAD_TO_UNLOAD ==
    [
        L1 |-> [U1 |-> 960, U2 |-> 1680, U3 |-> 960, U4 |-> 960,
            U5 |-> 960, U6 |-> 1440, U7 |-> 1200, U8 |-> 960, U9 |-> 720,
            U10 |-> 1200, U11 |-> 1680],
        L2 |-> [U1 |-> 960, U2 |-> 1440, U3 |-> 1200, U4 |-> 960,
            U5 |-> 960, U6 |-> 1200, U7 |-> 1200, U8 |-> 1200, U9 |-> 720,
            U10 |-> 1200, U11 |-> 1440],
        L3 |-> [U1 |-> 960, U2 |-> 1440, U3 |-> 1200, U4 |-> 960,
            U5 |-> 960, U6 |-> 1200, U7 |-> 1200, U8 |-> 1200, U9 |-> 720,
            U10 |-> 1440, U11 |-> 1440],
        L4 |-> [U1 |-> 960, U2 |-> 1440, U3 |-> 960, U4 |-> 720,
            U5 |-> 720, U6 |-> 1200, U7 |-> 1200, U8 |-> 960, U9 |-> 720,
            U10 |-> 1200, U11 |-> 1440],
        L5 |-> [U1 |-> 960, U2 |-> 1440, U3 |-> 960, U4 |-> 720,
            U5 |-> 720, U6 |-> 1200, U7 |-> 1200, U8 |-> 960, U9 |-> 720,
            U10 |-> 1200, U11 |-> 1200],
        L6 |-> [U1 |-> 1392, U2 |-> 1752, U3 |-> 1536, U4 |-> 1344,
            U5 |-> 1344, U6 |-> 1560, U7 |-> 1608, U8 |-> 1536,
            U9 |-> 1200, U10 |-> 1680, U11 |-> 1752]
    ]

TRIP_TIMES_UNLOAD_TO_UNLOAD ==
    [
        U1 |-> [U1 |-> 0, U2 |-> 840, U3 |-> 456, U4 |-> 384, U5 |-> 384,
            U6 |-> 600, U7 |-> 552, U8 |-> 456, U9 |-> 216, U10 |-> 456,
            U11 |-> 792],
        U2 |-> [U1 |-> 864, U2 |-> 0, U3 |-> 912, U4 |-> 888, U5 |-> 888,
            U6 |-> 360, U7 |-> 816, U8 |-> 912, U9 |-> 696, U10 |-> 960,
            U11 |-> 456],
        U3 |-> [U1 |-> 384, U2 |-> 792, U3 |-> 0, U4 |-> 384, U5 |-> 384,
            U6 |-> 600, U7 |-> 504, U8 |-> 408, U9 |-> 216, U10 |-> 456,
            U11 |-> 768],
        U4 |-> [U1 |-> 432, U2 |-> 888, U3 |-> 504, U4 |-> 0, U5 |-> 288,
            U6 |-> 696, U7 |-> 600, U8 |-> 504, U9 |-> 120, U10 |-> 504,
            U11 |-> 840],
        U5 |-> [U1 |-> 432, U2 |-> 888, U3 |-> 504, U4 |-> 288, U5 |-> 0,
            U6 |-> 696, U7 |-> 600, U8 |-> 504, U9 |-> 120, U10 |-> 504,
            U11 |-> 840],
        U6 |-> [U1 |-> 696, U2 |-> 408, U3 |-> 768, U4 |-> 744, U5 |-> 744,
            U6 |-> 0, U7 |-> 528, U8 |-> 768, U9 |-> 576, U10 |-> 816,
            U11 |-> 432],
        U7 |-> [U1 |-> 456, U2 |-> 696, U3 |-> 504, U4 |-> 480, U5 |-> 480,
            U6 |-> 360, U7 |-> 0, U8 |-> 504, U9 |-> 288, U10 |-> 504,
            U11 |-> 672],
        U8 |-> [U1 |-> 384, U2 |-> 792, U3 |-> 408, U4 |-> 384, U5 |-> 384,
            U6 |-> 600, U7 |-> 504, U8 |-> 0, U9 |-> 216, U10 |-> 456,
            U11 |-> 768],
        U9 |-> [U1 |-> 408, U2 |-> 888, U3 |-> 504, U4 |-> 288, U5 |-> 288,
            U6 |-> 696, U7 |-> 600, U8 |-> 504, U9 |-> 0, U10 |-> 504,
            U11 |-> 840],
        U10 |-> [U1 |-> 336, U2 |-> 816, U3 |-> 432, U4 |-> 360,
            U5 |-> 360, U6 |-> 648, U7 |-> 480, U8 |-> 432, U9 |-> 168,
            U10 |-> 0, U11 |-> 792],
        U11 |-> [U1 |-> 792, U2 |-> 408, U3 |-> 816, U4 |-> 792,
            U5 |-> 792, U6 |-> 312, U7 |-> 720, U8 |-> 816, U9 |-> 600,
            U10 |-> 864, U11 |-> 0]
    ]

\* fallbacks of the two .get(..., 0.5) / .get(..., 0.2) lookups
LoadToUnloadFallback == 1200

UnloadToUnloadFallback == 480

LOADING_TIME_HOURS == 600

UNLOADING_TIME_HOURS_PER_PORT == 400

MAX_DISCHARGE_PORTS == 2

\* the pickup leg with a missing entry counted as no time
LoadToUnloadZeroDefault(l, u) ==
    IF l \in DOMAIN TRIP_TIMES_LOAD_TO_UNLOAD
       /\ u \in DOMAIN TRIP_TIMES_LOAD_TO_UNLOAD[l]
    THEN TRIP_TIMES_LOAD_TO_UNLOAD[l][u]
    ELSE 0

LoadToUnload(l, u) ==
    IF l \in DOMAIN TRIP_TIMES_LOAD_TO_UNLOAD
       /\ u \in DOMAIN TRIP_TIMES_LOAD_TO_UNLOAD[l]
    THEN TRIP_TIMES_LOAD_TO_UNLOAD[l][u]
    ELSE LoadToUnloadFallback

UnloadToUnload(a, b) ==
    IF a \in DOMAIN TRIP_TIMES_UNLOAD_TO_UNLOAD
       /\ b \in DOMAIN TRIP_TIMES_UNLOAD_TO_UNLOAD[a]
    THEN TRIP_TIMES_UNLOAD_TO_UNLOAD[a][b]
    ELSE UnloadToUnloadFallback

\* the trip time with the second leg read from the pickup's row
TripTimeSecondLegFromPickup(loading_port_id, discharge_port_ids, include_service_time, include_return_trip) ==
    IF discharge_port_ids = <<>> THEN 0
    ELSE
      LET n == Len(discharge_port_ids)
          legs == SumSeq([i \in 1..n |-> LoadToUnload(loading_port_id, discharge_port_ids[i])])
          service == IF include_service_time
                     THEN LOADING_TIME_HOURS + UNLOADING_TIME_HOURS_PER_PORT * n
                     ELSE 0
          return == IF include_return_trip
                    THEN LoadToUnload(loading_port_id, discharge_port_ids[n])
                    ELSE 0
      IN  legs + service + return

\* the trip time with one unloading slot whatever the number of ports
TripTimeOneUnloadingSlot(loading_port_id, discharge_port_ids, include_service_time, include_return_trip) ==
    IF discharge_port_ids = <<>> THEN 0
    ELSE
      LET n == Len(discharge_port_ids)
          first == LoadToUnload(loading_port_id, discharge_port_ids[1])
          inter == SumSeq([i \in 1..(n - 1) |->
                      UnloadToUnload(discharge_port_ids[i], discharge_port_ids[i + 1])])
          service == IF include_service_time
                     THEN LOADING_TIME_HOURS + UNLOADING_TIME_HOURS_PER_PORT
                     ELSE 0
          return == IF include_return_trip
                    THEN LoadToUnload(loading_port_id, discharge_port_ids[n])
                    ELSE 0
      IN  first + inter + service + return

\* calculate_trip_time_from_tables
calculate_trip_time_from_tables(loading_port_id, discharge_port_ids, include_service_time, include_return_trip) ==
    IF discharge_port_ids = <<>> THEN 0
    ELSE
      LET n == Len(discharge_port_ids)
          first == LoadToUnload(loading_port_id, discharge_port_ids[1])
          inter == SumSeq([i \in 1..(n - 1) |->
                      UnloadToUnload(discharge_port_ids[i], discharge_port_ids[i + 1])])
          service == IF include_service_time
                     THEN LOADING_TIME_HOURS + UNLOADING_TIME_HOURS_PER_PORT * n
                     ELSE 0
          return == IF include_return_trip
                    THEN LoadToUnload(loading_port_id, discharge_port_ids[n])
                    ELSE 0
      IN  first + inter + service + return

(***************************************************************************)
(* HPCLRouteGenerator                                                      *)
(***************************************************************************)
DefaultLoadingPortCharge == 100000

DefaultDischargePortCharge == 80000

\* _calculate_cargo_split: a dict keyed by port id, in tenths of an MT
CalculateCargoSplit(vessel_capacity, discharge_ids, route_type) ==
    IF route_type = "direct"
    THEN [p \in {discharge_ids[1]} |-> 10 * vessel_capacity]
    ELSE [p \in SeqRange(discharge_ids) |-> (10 * vessel_capacity) \div Len(discharge_ids)]

\* _validate_hpcl_constraints without its duplicate-port test
ValidateWithoutDuplicateTest(loading_id, discharge_ids) ==
    /\ ~ (Len(discharge_ids) > MAX_DISCHARGE_PORTS)
    /\ ~ (Len(discharge_ids) = 0)
    /\ loading_id \notin SeqRange(discharge_ids)

\* _validate_hpcl_constraints
ValidateHpclConstraints(loading_id, discharge_ids) ==
    /\ ~ (Len(discharge_ids) > MAX_DISCHARGE_PORTS)
    /\ ~ (Len(discharge_ids) = 0)
    /\ Cardinality(SeqRange(discharge_ids)) = Len(discharge_ids)
    /\ loading_id \notin SeqRange(discharge_ids)

\* port_charges_per_visit or <default>
ChargeOr(port, default) ==
    IF port.port_charges_per_visit = 0 THEN default ELSE port.port_charges_per_visit

\* _calculate_route_metrics without the route id; None for a rejected route.
\* Inside, money is held in 1/2400 rupee so that days x daily rate is exact;
\* cost_breakdown keeps that unit, total_cost and cost_per_mt are rounded to
\* hundredths of a rupee as the source rounds them to 2 decimals.
CalculateRouteMetrics(vessel, loading_port, discharge_ports, fuel_price, route_type) ==
    LET ids == Ids(discharge_ports)
        total_time == calculate_trip_time_from_tables(loading_port.id, ids, TRUE, FALSE)
        sailing_time == calculate_trip_time_from_tables(loading_port.id, ids, FALSE, FALSE)
        cargo_split == CalculateCargoSplit(vessel.capacity_mt, ids, route_type)
        total_cargo == SumOver(DOMAIN cargo_split, cargo_split)
        charter_cost == total_time * vessel.daily_charter_rate
        port_charges == 2400 * (ChargeOr(loading_port, DefaultLoadingPortCharge)
                          + SumSeq([i \in 1..Len(discharge_ports) |->
                               ChargeOr(discharge_ports[i], DefaultDischargePortCharge)]))
        fuel_cost == vessel.fuel_consumption_mt_per_day * sailing_time * fuel_price
        total_cost == charter_cost + port_charges + fuel_cost
    IN  IF ~ ValidateHpclConstraints(loading_port.id, ids) THEN None
        ELSE [vessel_id |-> vessel.id,
              route_type |-> route_type,
              loading_port |-> loading_port.id,
              discharge_ports |-> ids,
              total_time_hours |-> total_time,
              sailing_time_hours |-> sailing_time,
              total_cost |-> RoundDiv(total_cost, 24),
              cargo_quantity |-> total_cargo,
              cargo_split |-> cargo_split,
              cost_breakdown |-> [charter_cost |-> charter_cost,
                                  port_charges |-> port_charges,
                                  fuel_cost |-> fuel_cost,
                                  total_cost |-> total_cost],
              fuel_consumption_mt |->
                  RoundDiv(vessel.fuel_consumption_mt_per_day * sailing_time, 24),
              \* total_cargo is a whole number of half MT, so the divisor is exact
              cost_per_mt |-> IF total_cargo > 0
                              THEN RoundDiv(total_cost, 12 * (total_cargo \div 5))
                              ELSE 0]

\* _generate_direct_routes: one candidate per (loading port, unloading port)
GenerateDirectRoutes(vessel, lports, uports, fuel_price) ==
    LET nu == Len(uports)
        all == [k \in 1..(Len(lports) * nu) |->
                   CalculateRouteMetrics(vessel, lports[((k - 1) \div nu) + 1],
                                         <<uports[((k - 1) % nu) + 1]>>,
                                         fuel_price, "direct")]
    IN  SelectSeq(all, LAMBDA r : r # None)

\* itertools.combinations(range(n), 2) in its order
Combinations2(n) ==
    SelectSeq([k \in 1..(n * n) |-> <<((k - 1) \div n) + 1, ((k - 1) % n) + 1>>],
              LAMBDA p : p[1] < p[2])

\* _generate_split_routes emitting only the first visiting order of a pair
GenerateSplitRoutesOneOrder(vessel, lports, uports, fuel_price) ==
    LET combos == Combinations2(Len(uports))
        nc == Len(combos)
        sequences == [k \in 1..nc |-> <<uports[combos[k][1]], uports[combos[k][2]]>>]
        all == [k \in 1..(Len(lports) * nc) |->
                   CalculateRouteMetrics(vessel, lports[((k - 1) \div nc) + 1],
                                         sequences[((k - 1) % nc) + 1],
                                         fuel_price, "split")]
    IN  SelectSeq(all, LAMBDA r : r # None)

\* _generate_split_routes: both visiting orders of every pair, per loading port
GenerateSplitRoutes(vessel, lports, uports, fuel_price) ==
    LET combos == Combinations2(Len(uports))
        nc == Len(combos)
        sequences == [k \in 1..(2 * nc) |->
                        LET c == combos[(k + 1) \div 2]
                        IN  IF k % 2 = 1 THEN <<uports[c[1]], uports[c[2]]>>
                            ELSE <<uports[c[2]], uports[c[1]]>>]
        all == [k \in 1..(Len(lports) * 2 * nc) |->
                   CalculateRouteMetrics(vessel, lports[((k - 1) \div (2 * nc)) + 1],
                                         sequences[((k - 1) % (2 * nc)) + 1],
                                         fuel_price, "split")]
    IN  SelectSeq(all, LAMBDA r : r # None)

\* generate_all_feasible_routes: per vessel the direct then the split routes.
\* route_id is unique per candidate (the source appends a uuid); the model
\* uses the candidate's position in the generated list.
GenerateAllFeasibleRoutes(vs, lports, uports, fuel_price) ==
    LET routes == Flatten([i \in 1..Len(vs) |->
                      GenerateDirectRoutes(vs[i], lports, uports, fuel_price)
                      \o GenerateSplitRoutes(vs[i], lports, uports, fuel_price)])
    IN  [k \in 1..Len(routes) |-> [route_id |-> k] @@ routes[k]]

(***************************************************************************)
(* HPCLRouteOptimizer: generation followed by the focus-specific filter    *)
(***************************************************************************)
\* the group key f"{vessel_id}_{loading_port}"
RouteKey(route) == <<route.vessel_id, route.loading_port>>

RECURSIVE DistinctInOrder(_)
\* the keys of a dict filled in this order
DistinctInOrder(s) ==
    IF s = <<>> THEN <<>>
    ELSE LET rest == DistinctInOrder(SubSeq(s, 1, Len(s) - 1))
             last == s[Len(s)]
         IN  IF last \in SeqRange(rest) THEN rest ELSE Append(rest, last)

RECURSIVE StableSortBy(_, _)
\* list.sort(key=lambda r: r[field]): ascending, equal keys keep their order
StableSortBy(s, field) ==
    IF s = <<>> THEN <<>>
    ELSE LET init == StableSortBy(SubSeq(s, 1, Len(s) - 1), field)
             x == s[Len(s)]
             n == Cardinality({i \in 1..Len(init) : init[i][field] <= x[field]})
         IN  SubSeq(init, 1, n) \o <<x>> \o SubSeq(init, n + 1, Len(init))

\* the body shared by the _filter_by_* methods: per group, the better half
FilterByField(routes, field) ==
    LET keys == DistinctInOrder([i \in 1..Len(routes) |-> RouteKey(routes[i])])
    IN  Flatten([g \in 1..Len(keys) |->
            LET group == StableSortBy(
                             SelectSeq(routes, LAMBDA r : RouteKey(r) = keys[g]), field)
                keep_count == Max(1, Len(group) \div 2)
            IN  SubSeq(group, 1, keep_count)])

\* _filter_by_cost_efficiency
FilterByCostEfficiency(routes) == FilterByField(routes, "cost_per_mt")

\* _filter_by_time_efficiency
FilterByTimeEfficiency(routes) == FilterByField(routes, "total_time_hours")

\* generate_optimized_route_set (the "distance" focus is not modelled)
GenerateOptimizedRouteSet(vs, lports, uports, fuel_price, optimization_focus) ==
    LET all_routes == GenerateAllFeasibleRoutes(vs, lports, uports, fuel_price)
    IN  IF optimization_focus = "cost" THEN FilterByCostEfficiency(all_routes)
        ELSE IF optimization_focus = "time" THEN FilterByTimeEfficiency(all_routes)
        ELSE all_routes

(***************************************************************************)
(* HPCLCPSATOptimizer: the CP-SAT model.  Variables and constraint terms    *)
(* are keyed by the position of the route in feasible_routes (route ids     *)
(* are unique).                                                             *)
(***************************************************************************)
DefaultVesselCapacity == 50000

MaxVoyagesPerMonth == 8

\* route.get('vessel_capacity_mt', 50000)
VesselCapacityOf(route) ==
    IF "vessel_capacity_mt" \in DOMAIN route THEN route.vessel_capacity_mt
    ELSE DefaultVesselCapacity

\* _create_decision_variables: per route the IntVar cargo bounds and the
\* linking constraint cargo <= link_capacity * active
CreateDecisionVariables(routes) ==
    [k \in 1..Len(routes) |->
        [route_id |-> routes[k].route_id,
         cargo_lb |-> 0,
         cargo_ub |-> VesselCapacityOf(routes[k]),
         link_capacity |-> VesselCapacityOf(routes[k])]]

\* demand_dict.get(port_id, 0.0), in tenths of an MT
DemandGet(dd, port_id) == IF port_id \in DOMAIN dd THEN dd[port_id] ELSE 0

\* int(round(demand_dict.get(port_id, 0.0)))
DemandMt(dd, port_id) == RoundDiv(DemandGet(dd, port_id), 10)

ServingRoutes(routes, port_id, num_discharge_ports) ==
    {k \in 1..Len(routes) : /\ port_id \in SeqRange(routes[k].discharge_ports)
                            /\ Len(routes[k].discharge_ports) = num_discharge_ports}

\* _add_demand_constraints: 2 x sum(direct) + sum(split) == 2 x demand_mt for
\* every unloading port with a non-zero rounded demand and a serving route
AddDemandConstraints(routes, dd, uports) ==
    LET all == [i \in 1..Len(uports) |->
                   [port |-> uports[i].id,
                    demand |-> DemandMt(dd, uports[i].id),
                    direct_routes |-> ServingRoutes(routes, uports[i].id, 1),
                    split_routes |-> ServingRoutes(routes, uports[i].id, 2)]]
    IN  SelectSeq(all, LAMBDA c : /\ c.demand # 0
                                  /\ ~ (c.direct_routes = {} /\ c.split_routes = {}))

VesselRoutes(routes, vessel_id) == {k \in 1..Len(routes) : routes[k].vessel_id = vessel_id}

\* _add_vessel_time_constraints: sum(active x int(round(time))) <= int(round(hours))
AddVesselTimeConstraints(routes, vs) ==
    LET all == [i \in 1..Len(vs) |->
                   [vessel |-> vs[i].id,
                    vessel_routes |-> VesselRoutes(routes, vs[i].id),
                    time_hours |-> [k \in VesselRoutes(routes, vs[i].id) |->
                                       RoundDiv(routes[k].total_time_hours, 100)],
                    available_hours |-> RoundDiv(vs[i].monthly_available_hours, 100)]]
    IN  SelectSeq(all, LAMBDA c : c.vessel_routes # {})

\* a model builder that adds no voyage cap
AddNoOperationalConstraints(routes, vs) == <<>>

\* _add_hpcl_operational_constraints: sum(active) <= 8 per vessel
AddHpclOperationalConstraints(routes, vs) ==
    LET all == [i \in 1..Len(vs) |->
                   [vessel |-> vs[i].id,
                    vessel_routes |-> VesselRoutes(routes, vs[i].id),
                    max_voyages |-> MaxVoyagesPerMonth]]
    IN  SelectSeq(all, LAMBDA c : c.vessel_routes # {})

\* _set_optimization_objective: the coefficient of each route's active variable
SetOptimizationObjective(routes, objective) ==
    [k \in 1..Len(routes) |->
        IF objective = "cost" THEN routes[k].total_cost \div 10000
        ELSE IF objective = "emissions" THEN routes[k].fuel_consumption_mt
        ELSE IF objective = "time" THEN routes[k].total_time_hours \div 100
        ELSE (routes[k].total_cost \div 100000) + (routes[k].total_time_hours \div 100)]

\* steps 2 to 5 of optimize_hpcl_fleet
BuildCpModel(routes, vs, uports, dd, objective) ==
    [variables |-> CreateDecisionVariables(routes),
     demand_constraints |-> AddDemandConstraints(routes, dd, uports),
     time_constraints |-> AddVesselTimeConstraints(routes, vs),
     operational_constraints |-> AddHpclOperationalConstraints(routes, vs),
     objective |-> SetOptimizationObjective(routes, objective)]

(***************************************************************************)
(* The CP-SAT solver, seen from outside: it answers OPTIMAL or FEASIBLE     *)
(* with an assignment satisfying every constraint of the model, INFEASIBLE  *)
(* when there is none, or gives up (UNKNOWN, MODEL_INVALID).  The integer   *)
(* domain lb..ub of a cargo variable is sampled at lb, the midpoint and ub. *)
(***************************************************************************)
CargoSamples(lb, ub) == {lb, (lb + ub) \div 2, ub}

\* the values of one route's pair of variables that satisfy its linking
\* constraint cargo <= link_capacity * active
VarDomain(v) ==
    {d \in [active : {0, 1}, cargo : CargoSamples(v.cargo_lb, v.cargo_ub)] :
        d.cargo <= v.link_capacity * d.active}

Assignments(m) ==
    LET n == Len(m.variables)
        every == UNION {VarDomain(m.variables[k]) : k \in 1..n}
    IN  {a \in [1..n -> every] : \A k \in 1..n : a[k] \in VarDomain(m.variables[k])}

\* left-hand side of a demand constraint under assignment a
DemandLhs(c, a) ==
    2 * SumOver(c.direct_routes, [k \in c.direct_routes |-> a[k].cargo])
    + SumOver(c.split_routes, [k \in c.split_routes |-> a[k].cargo])

\* the constraints added after the variables were created
Satisfies(m, a) ==
    /\ \A i \in 1..Len(m.demand_constraints) :
          DemandLhs(m.demand_constraints[i], a) = 2 * m.demand_constraints[i].demand
    /\ \A i \in 1..Len(m.time_constraints) :
          LET c == m.time_constraints[i]
          IN  SumOver(c.vessel_routes,
                      [k \in c.vessel_routes |-> a[k].active * c.time_hours[k]])
                <= c.available_hours
    /\ \A i \in 1..Len(m.operational_constraints) :
          LET c == m.operational_constraints[i]
          IN  SumOver(c.vessel_routes, [k \in c.vessel_routes |-> a[k].active])
                <= c.max_voyages

SatisfyingAssignments(m) == {a \in Assignments(m) : Satisfies(m, a)}

ObjectiveValue(m, a) == SumSeq([k \in 1..Len(m.objective) |-> m.objective[k] * a[k].active])

OptimalAssignments(m) ==
    LET sat == SatisfyingAssignments(m)
        values == {ObjectiveValue(m, a) : a \in sat}
    IN  {a \in sat : \A x \in values : ObjectiveValue(m, a) <= x}

(***************************************************************************)
(* HPCLCPSATOptimizer: results                                             *)
(***************************************************************************)
LoadingActivityHours == 12

UnloadingActivityHours == 8

IdleActivityHours == 6

\* selected_routes of _extract_optimization_result: the active routes, each
\* copied with the solver's cargo flow
SelectedRoutes(routes, a) ==
    LET copies == [k \in 1..Len(routes) |->
                      [cargo_flow_mt |-> a[k].cargo, execution_count |-> 1,
                       selected |-> a[k].active > 0] @@ routes[k]]
    IN  SelectSeq(copies, LAMBDA r : r.selected)

\* the delivered quantity with a split route's whole flow counted at each port
DeliveredWithoutHalving(selected, port_id) ==
    SumSeq([k \in 1..Len(selected) |->
        IF port_id \in SeqRange(selected[k].discharge_ports)
        THEN 10 * selected[k].cargo_flow_mt
        ELSE 0])

\* delivered quantity at a port re-derived from the selected routes, in
\* tenths of an MT: the whole flow of a direct route, half of a split one
Delivered(selected, port_id) ==
    SumSeq([k \in 1..Len(selected) |->
        IF port_id \in SeqRange(selected[k].discharge_ports)
        THEN IF Len(selected[k].discharge_ports) = 1 THEN 10 * selected[k].cargo_flow_mt
             ELSE IF Len(selected[k].discharge_ports) = 2 THEN 5 * selected[k].cargo_flow_mt
             ELSE 0
        ELSE 0])

\* non-idle time of one voyage in the schedule, in 1/600 hour: loading, then
\* per discharge port an equal share of total_time_hours and the unloading
VoyageWorkingTime(route) ==
    LET n == Len(route.discharge_ports)
    IN  600 * LoadingActivityHours
        + n * ((6 * route.total_time_hours) \div (n + 1))
        + n * 600 * UnloadingActivityHours

\* the activities one voyage appends, each with its duration in 1/600 hour:
\* loading, per discharge port a sailing leg and the unloading, then idle
VoyageSteps(route) ==
    LET n == Len(route.discharge_ports)
    IN  << [activity_type |-> "loading", location |-> route.loading_port,
            duration |-> 600 * LoadingActivityHours] >>
        \o Flatten([i \in 1..n |->
               << [activity_type |-> "sailing", location |-> "at_sea",
                   duration |-> (6 * route.total_time_hours) \div (n + 1)],
                  [activity_type |-> "unloading", location |-> route.discharge_ports[i],
                   duration |-> 600 * UnloadingActivityHours] >>])
        \o << [activity_type |-> "idle", location |-> "port",
                duration |-> 600 * IdleActivityHours] >>

RECURSIVE ActivitiesFromOneStart(_, _)
\* the activities with current_time never moved on
ActivitiesFromOneStart(steps, current_time) ==
    IF steps = <<>> THEN <<>>
    ELSE << [activity_type |-> Head(steps).activity_type,
             start_time |-> current_time,
             end_time |-> current_time + Head(steps).duration,
             location |-> Head(steps).location] >>
         \o ActivitiesFromOneStart(Tail(steps), current_time)

RECURSIVE WalkActivities(_, _)
\* the VoyageActivity list: each activity runs from current_time to its end,
\* to which current_time is then set (time in 1/600 hour from the month start)
WalkActivities(steps, current_time) ==
    IF steps = <<>> THEN <<>>
    ELSE LET end == current_time + Head(steps).duration
         IN  << [activity_type |-> Head(steps).activity_type,
                 start_time |-> current_time,
                 end_time |-> end,
                 location |-> Head(steps).location] >>
             \o WalkActivities(Tail(steps), end)

\* _generate_vessel_schedules with the computed percentage reported as it is
GenerateVesselSchedulesUncapped(selected, vs) ==
    [i \in 1..Len(vs) |->
        LET vessel_routes == SelectSeq(selected, LAMBDA r : r.vessel_id = vs[i].id)
            working == SumSeq([k \in 1..Len(vessel_routes) |->
                                  VoyageWorkingTime(vessel_routes[k])])
            available == 6 * vs[i].monthly_available_hours
        IN  [vessel_id |-> vs[i].id,
             activities |-> WalkActivities(
                 Flatten([k \in 1..Len(vessel_routes) |-> VoyageSteps(vessel_routes[k])]), 0),
             total_voyages |-> Len(vessel_routes),
             total_cargo_mt |-> SumSeq([k \in 1..Len(vessel_routes) |->
                                           vessel_routes[k].cargo_flow_mt]),
             total_cost |-> SumSeq([k \in 1..Len(vessel_routes) |->
                                       vessel_routes[k].total_cost]),
             working_time |-> working,
             utilized_time |-> IF available > 0 THEN working ELSE 0,
             utilization_percentage |->
                 IF available > 0 THEN (100 * working) \div available ELSE 0]]

\* _generate_vessel_schedules: the activities and the summary metrics of each
\* vessel's schedule;
\* utilized_time is utilization_percentage x monthly_available_hours / 100
GenerateVesselSchedules(selected, vs) ==
    [i \in 1..Len(vs) |->
        LET vessel_routes == SelectSeq(selected, LAMBDA r : r.vessel_id = vs[i].id)
            working == SumSeq([k \in 1..Len(vessel_routes) |->
                                  VoyageWorkingTime(vessel_routes[k])])
            available == 6 * vs[i].monthly_available_hours
        IN  [vessel_id |-> vs[i].id,
             activities |-> WalkActivities(
                 Flatten([k \in 1..Len(vessel_routes) |-> VoyageSteps(vessel_routes[k])]), 0),
             total_voyages |-> Len(vessel_routes),
             total_cargo_mt |-> SumSeq([k \in 1..Len(vessel_routes) |->
                                           vessel_routes[k].cargo_flow_mt]),
             total_cost |-> SumSeq([k \in 1..Len(vessel_routes) |->
                                       vessel_routes[k].total_cost]),
             working_time |-> working,
             utilized_time |-> IF available > 0 THEN Min(available, working) ELSE 0,
             utilization_percentage |->
                 IF available > 0 THEN Min(100, (100 * working) \div available) ELSE 0]]

\* _calculate_fleet_utilization as <<utilized, available>> time in 1/600 hour
FleetUtilizationRatio(schedules, vs) ==
    IF schedules = <<>> \/ vs = <<>> THEN <<0, 0>>
    ELSE <<SumSeq([i \in 1..Min(Len(schedules), Len(vs)) |-> schedules[i].utilized_time]),
           SumSeq([i \in 1..Len(vs) |-> 6 * vs[i].monthly_available_hours])>>

\* the percentage of a ratio, 0 when nothing is available
Percentage(ratio) == IF ratio[2] > 0 THEN (100 * ratio[1]) \div ratio[2] ELSE 0

\* _generate_recommendations: one tag per message of the source
GenerateRecommendations(selected, unmet_demand, utilization) ==
    LET low == IF utilization[2] > 0 THEN 100 * utilization[1] < 70 * utilization[2]
               ELSE TRUE
        high == utilization[2] > 0 /\ 100 * utilization[1] > 95 * utilization[2]
        total_unmet == SumOver(DOMAIN unmet_demand, unmet_demand)
        cost_sum == SumSeq([k \in 1..Len(selected) |-> selected[k].cost_per_mt])
        recommendations ==
            (IF low THEN <<"low_fleet_utilization">>
             ELSE IF high THEN <<"high_fleet_utilization">> ELSE <<>>)
            \o (IF total_unmet > 0 THEN <<"unmet_demand">> ELSE <<>>)
            \o (IF selected # <<>> /\ cost_sum > 250000 * Len(selected)
                THEN <<"high_cost_per_mt">> ELSE <<>>)
            \o (IF Len(selected) < 15 THEN <<"limited_route_diversity">> ELSE <<>>)
    IN  IF recommendations = <<>> THEN <<"results_look_good">> ELSE recommendations

\* _extract_optimization_result
ExtractOptimizationResult(status, routes, vs, uports, dd, a) ==
    LET selected == SelectedRoutes(routes, a)
        port_ids == SeqRange(Ids(uports))
        demands_met == [p \in port_ids |-> Delivered(selected, p)]
        unmet_demand == [p \in port_ids |-> Max(0, DemandGet(dd, p) - demands_met[p])]
        total_demand == SumOver(DOMAIN dd, dd)
        total_met == SumOver(port_ids, demands_met)
        schedules == GenerateVesselSchedules(selected, vs)
        utilization == FleetUtilizationRatio(schedules, vs)
    IN  [optimization_status |-> IF status = "OPTIMAL" THEN "optimal"
                                 ELSE IF status = "FEASIBLE" THEN "feasible"
                                 ELSE "suboptimal",
         selected_routes |-> [k \in 1..Len(selected) |->
             [route_id |-> selected[k].route_id,
              vessel_id |-> selected[k].vessel_id,
              loading_port |-> selected[k].loading_port,
              discharge_ports |-> selected[k].discharge_ports,
              total_cost |-> selected[k].total_cost,
              total_time_hours |-> selected[k].total_time_hours,
              cargo_quantity |-> selected[k].cargo_flow_mt,
              execution_count |-> selected[k].execution_count]],
         vessel_schedules |-> schedules,
         total_cost |-> SumSeq([k \in 1..Len(selected) |-> selected[k].total_cost]),
         total_cargo_mt |-> SumSeq([k \in 1..Len(selected) |-> selected[k].cargo_flow_mt]),
         fleet_utilization |-> Percentage(utilization),
         demands_met |-> demands_met,
         unmet_demand |-> unmet_demand,
         demand_satisfaction_rate |->
             IF total_demand > 0 THEN (100 * total_met) \div total_demand ELSE 0,
         recommendations |-> GenerateRecommendations(selected, unmet_demand, utilization)]

\* _create_infeasibility_result
CreateInfeasibilityResult(dd) ==
    [optimization_status |-> "infeasible",
     selected_routes |-> <<>>,
     vessel_schedules |-> <<>>,
     total_cost |-> 0,
     total_cargo_mt |-> 0,
     fleet_utilization |-> 0,
     demands_met |-> [p \in DOMAIN dd |-> 0],
     unmet_demand |-> dd,
     demand_satisfaction_rate |-> 0,
     recommendations |-> <<"demand_exceeds_fleet_capacity", "capacity_gap",
                           "suggested_solutions", "charter_additional_vessels",
                           "allow_additional_trips", "multi_loading_port_operations",
                           "reduce_demand_at_high_demand_ports">>]

\* _create_error_result
CreateErrorResult(error_message) ==
    [optimization_status |-> "error",
     selected_routes |-> <<>>,
     vessel_schedules |-> <<>>,
     total_cost |-> 0,
     total_cargo_mt |-> 0,
     fleet_utilization |-> 0,
     demands_met |-> <<>>,
     unmet_demand |-> <<>>,
     demand_satisfaction_rate |-> 0,
     recommendations |-> << <<"Optimization failed", error_message>> >>]

\* step 7 with every status other than OPTIMAL and FEASIBLE taken as infeasible
ResultBranchConflating(status) ==
    IF status = "OPTIMAL" \/ status = "FEASIBLE" THEN "extract"
    ELSE "infeasibility"

\* step 7 of optimize_hpcl_fleet: which result the solver status leads to
ResultBranch(status) ==
    IF status = "OPTIMAL" \/ status = "FEASIBLE" THEN "extract"
    ELSE IF status = "INFEASIBLE" THEN "infeasibility"
    ELSE "error"

(***************************************************************************)
(* Input records                                                           *)
(***************************************************************************)
\* an HPCLVessel: charter 12000 Rs/day, 1 MT of fuel per day
Vessel(id, capacity, hours) ==
    [id |-> id, capacity_mt |-> capacity, daily_charter_rate |-> 12000,
     fuel_consumption_mt_per_day |-> 1,
     monthly_available_hours |-> hours]

FuelPrices == {100}

\* a port record; L2 carries no port charge, so the default charge applies
Port(id) == [id |-> id, port_charges_per_visit |-> IF id = "L2" THEN 0 ELSE 1]

PortList(ids) == [i \in 1..Len(ids) |-> Port(ids[i])]

\* all sequences over S of length 0..n
RECURSIVE SeqsUpTo(_, _)
SeqsUpTo(S, n) ==
    IF n = 0 THEN {<<>>}
    ELSE LET shorter == SeqsUpTo(S, n - 1)
         IN  shorter \cup {Append(s, x) : s \in shorter, x \in S}

IsDistinct(s) == Cardinality(SeqRange(s)) = Len(s)

(***************************************************************************)
(* Spec: one call of HPCLCPSATOptimizer.optimize_hpcl_fleet                *)
(***************************************************************************)
MaxVessels == 2

MaxUnloading == 3

\* largest number of routes handed to the model builder
MaxModelRoutes == 4

VesselIds == <<"V1", "V2", "V3">>

\* <<capacity_mt, monthly_available_hours>>
VesselKinds == {<<25000, 72000>>, <<100000, 72000>>, <<25000, 1700>>}

CapacityValues == {kind[1] : kind \in VesselKinds}

Fleets ==
    UNION {{[i \in 1..n |-> Vessel(VesselIds[i], kinds[i][1], kinds[i][2])] :
                kinds \in [1..n -> VesselKinds]} :
           n \in 1..Min(MaxVessels, Len(VesselIds))}

UnloadingOrder == <<"U1", "U2", "U9">>

UnloadingLists ==
    {PortList(SubSeq(UnloadingOrder, 1, n)) : n \in 0..Min(MaxUnloading, Len(UnloadingOrder))}

\* monthly demands in tenths of an MT: none, 25000.4, 50000 and 100000 MT
DemandValues == {0, 5 * DefaultVesselCapacity + 4, 10 * DefaultVesselCapacity,
                 20 * DefaultVesselCapacity}

Objectives == {"cost", "time", "emissions", "balanced"}

SettingsAttributes == {"solver_profiles", "solver_log_progress"}

inputs == <<settings, vessels, loading_ports, unloading_ports, demand_dict,
            optimization_objective, fuel_price_per_mt>>

Init ==
    /\ vessels \in Fleets
    /\ loading_ports = PortList(<<"L1">>)
    /\ unloading_ports \in UnloadingLists
    /\ optimization_objective \in Objectives
    /\ fuel_price_per_mt \in FuelPrices
    /\ Len(GenerateOptimizedRouteSet(vessels, loading_ports, unloading_ports,
                                      fuel_price_per_mt, optimization_objective))
         <= MaxModelRoutes
    /\ settings \in SUBSET SettingsAttributes
    /\ demand_dict \in [SeqRange(Ids(unloading_ports)) -> DemandValues]
    /\ pc = "start"
    /\ generated_routes = <<>>
    /\ feasible_routes = <<>>
    /\ model = None
    /\ solver_status = "NOT_SOLVED"
    /\ solution = None
    /\ result = None
    /\ OutsideIdle

\* lines 67-70: the solver profile is read from the settings before the try
\* block, so a settings object without solver_profiles raises to the caller
ReadProfile ==
    /\ pc = "start"
    /\ pc' = IF "solver_profiles" \in settings THEN "generate" ELSE "raised"
    /\ UNCHANGED <<outside_run, inputs, generated_routes, feasible_routes, model, solver_status,
                   solution, result>>

\* step 1: generate_optimized_route_set; no route ends the call with an error
GenerateRoutes ==
    /\ pc = "generate"
    /\ generated_routes' = GenerateAllFeasibleRoutes(vessels, loading_ports,
                                                     unloading_ports, fuel_price_per_mt)
    /\ feasible_routes' = GenerateOptimizedRouteSet(vessels, loading_ports,
                               unloading_ports, fuel_price_per_mt, optimization_objective)
    /\ IF feasible_routes' = <<>>
       THEN /\ result' = CreateErrorResult("No feasible routes generated")
            /\ pc' = "returned"
       ELSE /\ result' = result
            /\ pc' = "build"
    /\ UNCHANGED <<outside_run, inputs, model, solver_status, solution>>

\* steps 2 to 5: variables, constraints, objective
BuildModel ==
    /\ pc = "build"
    /\ model' = BuildCpModel(feasible_routes, vessels, unloading_ports, demand_dict,
                             optimization_objective)
    /\ pc' = "configure"
    /\ UNCHANGED <<outside_run, inputs, generated_routes, feasible_routes, solver_status, solution,
                   result>>

\* lines 142-144: the solver parameters; reading settings.solver_log_progress
\* inside the try block fails into the except clause when it is missing
ConfigureSolver ==
    /\ pc = "configure"
    /\ IF "solver_log_progress" \in settings
       THEN /\ pc' = "solve"
            /\ result' = result
       ELSE /\ pc' = "returned"
            /\ result' = CreateErrorResult("no attribute solver_log_progress")
    /\ UNCHANGED <<outside_run, inputs, generated_routes, feasible_routes, model, solver_status,
                   solution>>

\* line 147, self.solver.Solve(self.model), by the status it returns
SolveOptimal ==
    /\ pc = "solve"
    /\ \E a \in OptimalAssignments(model) :
          /\ solution' = a
          /\ solver_status' = "OPTIMAL"
    /\ pc' = "process"
    /\ UNCHANGED <<outside_run, inputs, generated_routes, feasible_routes, model, result>>

SolveFeasible ==
    /\ pc = "solve"
    /\ \E a \in SatisfyingAssignments(model) :
          /\ solution' = a
          /\ solver_status' = "FEASIBLE"
    /\ pc' = "process"
    /\ UNCHANGED <<outside_run, inputs, generated_routes, feasible_routes, model, result>>

SolveInfeasible ==
    /\ pc = "solve"
    /\ SatisfyingAssignments(model) = {}
    /\ solver_status' = "INFEASIBLE"
    /\ pc' = "process"
    /\ UNCHANGED <<outside_run, inputs, generated_routes, feasible_routes, model, solution, result>>

\* the time limit passed before the solver found or refuted a solution
SolveUnknown ==
    /\ pc = "solve"
    /\ solver_status' = "UNKNOWN"
    /\ pc' = "process"
    /\ UNCHANGED <<outside_run, inputs, generated_routes, feasible_routes, model, solution, result>>

SolveModelInvalid ==
    /\ pc = "solve"
    /\ solver_status' = "MODEL_INVALID"
    /\ pc' = "process"
    /\ UNCHANGED <<outside_run, inputs, generated_routes, feasible_routes, model, solution, result>>

\* step 7, lines 162-178
ProcessResult ==
    /\ pc = "process"
    /\ result' =
          IF ResultBranch(solver_status) = "extract"
          THEN ExtractOptimizationResult(solver_status, feasible_routes, vessels,
                                         unloading_ports, demand_dict, solution)
          ELSE IF ResultBranch(solver_status) = "infeasibility"
          THEN CreateInfeasibilityResult(demand_dict)
          ELSE CreateErrorResult(<<"Solver failed with status", solver_status>>)
    /\ pc' = "returned"
    /\ UNCHANGED <<outside_run, inputs, generated_routes, feasible_routes, model, solver_status,
                   solution>>

Next ==
    \/ ReadProfile
    \/ GenerateRoutes
    \/ BuildModel
    \/ ConfigureSolver
    \/ SolveOptimal
    \/ SolveFeasible
    \/ SolveInfeasible
    \/ SolveUnknown
    \/ SolveModelInvalid
    \/ ProcessResult

Spec == Init /\ [][Next]_vars

(***************************************************************************)
(* SpecGen: one call of generate_all_feasible_routes on arbitrary port     *)
(* lists (repeated ids, a pickup id among the drop-offs).                  *)
(***************************************************************************)
GenMaxLoading == 2

GenMaxUnloading == 3

GenFleet == <<Vessel("V1", 25000, 72000), Vessel("V2", 100000, 72000),
              Vessel("V3", 50000, 72000)>>

InitGen ==
    /\ settings = {}
    /\ \E n \in 1..MaxVessels : vessels = SubSeq(GenFleet, 1, Min(n, Len(GenFleet)))
    /\ \E ids \in SeqsUpTo({"L1", "L2"}, GenMaxLoading) : loading_ports = PortList(ids)
    /\ \E ids \in SeqsUpTo({"U1", "U2", "U9", "L1"}, GenMaxUnloading) :
          unloading_ports = PortList(ids)
    /\ demand_dict = <<>>
    /\ optimization_objective = "cost"
    /\ fuel_price_per_mt \in FuelPrices
    /\ pc = "start"
    /\ generated_routes = <<>>
    /\ feasible_routes = <<>>
    /\ model = None
    /\ solver_status = "NOT_SOLVED"
    /\ solution = None
    /\ result = None
    /\ OutsideIdle

\* HPCLRouteGenerator.generate_all_feasible_routes
GenerateAll ==
    /\ pc = "start"
    /\ generated_routes' = GenerateAllFeasibleRoutes(vessels, loading_ports,
                                                     unloading_ports, fuel_price_per_mt)
    /\ pc' = "generated"
    /\ UNCHANGED <<outside_run, settings, vessels, loading_ports, unloading_ports,
                   demand_dict, optimization_objective, fuel_price_per_mt,
                   feasible_routes, model, solver_status, solution, result>>

NextGen == GenerateAll

SpecGen == InitGen /\ [][NextGen]_vars

VesselOf(vessel_id) == CHOOSE v \in SeqRange(vessels) : v.id = vessel_id

\* C(n, 2)
Choose2(n) == (n * (n - 1)) \div 2

C6_CandidateInvariants ==
    \A k \in 1..Len(generated_routes) :
        LET r == generated_routes[k]
        IN  /\ Len(r.discharge_ports) \in {1, 2}
            /\ IsDistinct(r.discharge_ports)
            /\ r.loading_port \notin SeqRange(r.discharge_ports)
            /\ DOMAIN r.cargo_split = SeqRange(r.discharge_ports)
            /\ SumOver(DOMAIN r.cargo_split, r.cargo_split)
                 <= 10 * VesselOf(r.vessel_id).capacity_mt

\* the port lists held a repeated drop-off and the pickup id among the
\* drop-offs, and the generator still emitted candidates
C6_Witness ==
    /\ pc = "generated"
    /\ Ids(loading_ports) = <<"L1">>
    /\ Ids(unloading_ports) = <<"U1", "U1", "L1">>
    /\ Len(generated_routes) = 2

(***************************************************************************)
(* Properties of a call of optimize_hpcl_fleet (Spec)                      *)
(***************************************************************************)
Succeeded ==
    pc = "returned" /\ result.optimization_status \in {"optimal", "feasible"}

SolverGaveAssignment == solver_status \in {"OPTIMAL", "FEASIBLE"}

UnloadingIds == SeqRange(Ids(unloading_ports))

\* C1: whenever the call returns 'optimal' or 'feasible', every drop-off port
\* with positive demand has demands_met equal to its demand exactly and an
\* unmet_demand of 0.
C1_DemandMetExactly ==
    Succeeded =>
        \A p \in UnloadingIds :
            DemandGet(demand_dict, p) > 0 =>
                /\ result.demands_met[p] = DemandGet(demand_dict, p)
                /\ result.unmet_demand[p] = 0

\* drop-off ports with positive demand that no route handed to the model
\* builder serves
UnservedDemandPorts ==
    {p \in UnloadingIds :
        /\ DemandGet(demand_dict, p) > 0
        /\ \A k \in 1..Len(feasible_routes) :
              p \notin SeqRange(feasible_routes[k].discharge_ports)}

\* C2: when a drop-off port has positive demand and no candidate handed to
\* the model builder serves it, model construction raises before the solver
\* is invoked: the call returns without a solver status and does not end
\* 'optimal' or 'feasible'.
C2_UnservedPortRejected ==
    (pc = "returned" /\ feasible_routes # <<>> /\ UnservedDemandPorts # {})
    => /\ solver_status = "NOT_SOLVED"
       /\ result.optimization_status \notin {"optimal", "feasible"}

\* C3: in every assignment the solver returns, for every vessel the sum of
\* total_time_hours over the vessel's active candidates is at most the
\* vessel's monthly_available_hours.
C3_TimeBudgetRespected ==
    SolverGaveAssignment =>
        \A i \in 1..Len(vessels) :
            LET mine == VesselRoutes(feasible_routes, vessels[i].id)
            IN  SumOver(mine, [k \in mine |->
                            solution[k].active * feasible_routes[k].total_time_hours])
                  <= vessels[i].monthly_available_hours

\* C4: in every assignment the solver returns, each candidate's cargo flow
\* lies between 0 and the capacity of the vessel owning the candidate, and
\* is positive only if the candidate is active.
C4_CargoWithinVesselCapacity ==
    SolverGaveAssignment =>
        \A k \in 1..Len(feasible_routes) :
            /\ solution[k].cargo >= 0
            /\ solution[k].cargo <= VesselOf(feasible_routes[k].vessel_id).capacity_mt
            /\ solution[k].cargo > 0 => solution[k].active = 1

\* left-hand side the constraint builder forms for a port: twice the flows of
\* its direct routes plus the flows of its split routes
PortLhs(port_id) ==
    DemandLhs([direct_routes |-> ServingRoutes(feasible_routes, port_id, 1),
               split_routes |-> ServingRoutes(feasible_routes, port_id, 2)], solution)

\* C7: for every returned assignment and every drop-off port, the delivered
\* quantity the extractor re-derives from the selected routes equals the
\* left-hand side of the port's demand constraint, its doubling undone, to
\* within one MT (demands_met is in tenths of an MT).
C7_DeliveredMatchesConstraint ==
    Succeeded =>
        \A p \in UnloadingIds :
            /\ 2 * result.demands_met[p] - 10 * PortLhs(p) <= 20
            /\ 10 * PortLhs(p) - 2 * result.demands_met[p] <= 20

\* a returned solution carries cargo on a split route and on a direct route
\* into ports that have a demand constraint
C7_Witness ==
    /\ Succeeded
    /\ \E i \in 1..Len(model.demand_constraints) :
          LET c == model.demand_constraints[i]
          IN  /\ \E k \in c.split_routes : solution[k].cargo > 0
              /\ \E k \in c.direct_routes : solution[k].cargo > 0
              /\ result.demands_met[c.port] = 10 * c.demand

\* the instance with the capacity of vessel i replaced
WithCapacity(vs, i, capacity) ==
    [j \in 1..Len(vs) |-> IF j = i THEN [vs[j] EXCEPT !.capacity_mt = capacity] ELSE vs[j]]

\* the model built for the instance has no satisfying assignment, so a call
\* whose solver comes to a conclusion ends 'infeasible'
EndsInfeasible(vs, lports, uports, dd, objective, fuel_price) ==
    LET routes == GenerateOptimizedRouteSet(vs, lports, uports, fuel_price, objective)
    IN  /\ routes # <<>>
        /\ SatisfyingAssignments(BuildCpModel(routes, vs, uports, dd, objective)) = {}

\* C8: if the call ends 'optimal' or 'feasible' on an instance, it does not
\* end 'infeasible' on the instance that differs only in one vessel having a
\* larger capacity.
C8_CapacityMonotone ==
    Succeeded =>
        \A i \in 1..Len(vessels) :
            \A capacity \in {c \in CapacityValues : c > vessels[i].capacity_mt} :
                ~ EndsInfeasible(WithCapacity(vessels, i, capacity), loading_ports,
                                 unloading_ports, demand_dict, optimization_objective,
                                 fuel_price_per_mt)

Deliverable(port_id) ==
    SumSeq([k \in 1..Len(feasible_routes) |->
        IF port_id \in SeqRange(feasible_routes[k].discharge_ports)
        THEN feasible_routes[k].cargo_split[port_id] ELSE 0])

\* C10: on an instance in which some port's demand exceeds what the fleet's
\* candidate voyages can deliver to it, a call whose solver comes to a
\* conclusion ends 'infeasible' with no selected route, a satisfaction rate
\* of 0, demands_met 0 and unmet_demand equal to the demand at every demanded
\* port, and at least one recommendation.
C10_ExcessDemandInfeasible ==
    (/\ pc = "returned"
     /\ solver_status \in {"OPTIMAL", "FEASIBLE", "INFEASIBLE"}
     /\ \E p \in DOMAIN demand_dict : demand_dict[p] > Deliverable(p))
    => /\ result.optimization_status = "infeasible"
       /\ result.selected_routes = <<>>
       /\ result.demand_satisfaction_rate = 0
       /\ \A p \in DOMAIN demand_dict :
             /\ result.demands_met[p] = 0
             /\ result.unmet_demand[p] = demand_dict[p]
       /\ Len(result.recommendations) >= 1

(***************************************************************************)
(* InfeasibilityAnalyzer (infeasibility_analyzer.py).  vessels are given   *)
(* by their capacity_mt, demands by the dict's items in insertion order,   *)
(* <<port, demand>>; capacities and demands in whole MT, cost estimates in *)
(* whole rupees.  The f-string of an action is held as its tag and the     *)
(* port and the number it prints ("" where it names no port).             *)
(***************************************************************************)
InfeasibilitySuggestion(action, port, detail, cost_estimate, priority) ==
    [action |-> action, port |-> port, detail |-> detail,
     cost_estimate |-> cost_estimate, priority |-> priority]

\* sum(self.demands.values())
TotalDemandOf(demands) == SumSeq([i \in 1..Len(demands) |-> demands[i][2]])

analyze_capacity_shortage(capacities, demands) ==
    LET total_capacity == SumSeq(capacities)
        total_demand == TotalDemandOf(demands)
        shortage == total_demand - total_capacity * 2
        vessels_needed == (shortage \div 25000) + 1
    IN  IF total_demand > total_capacity * 2
        THEN << InfeasibilitySuggestion("add_vessels", "", vessels_needed,
                                        vessels_needed * 500000 * 30, 1) >>
        ELSE <<>>

\* trips_required = total_demand / total_capacity, infinite without capacity
analyze_time_constraints(capacities, demands) ==
    LET total_capacity == SumSeq(capacities)
        total_demand == TotalDemandOf(demands)
    IN  IF total_capacity <= 0 \/ 2 * total_demand > 5 * total_capacity
        THEN << InfeasibilitySuggestion("extend_planning_horizon", "", 45, 0, 2) >>
        ELSE <<>>

analyze_vessel_constraints(capacities) ==
    LET n == Len(capacities)
        \* c < avg_capacity * 0.7
        small_vessels == SelectSeq(capacities,
                                   LAMBDA c : 10 * c * n < 7 * SumSeq(capacities))
        few == IF n < 5
               THEN << InfeasibilitySuggestion("include_more_vessels", "", n, 0, 2) >>
               ELSE <<>>
        imbalanced == IF n > 0 /\ 2 * Len(small_vessels) > n
                      THEN << InfeasibilitySuggestion("replace_small_vessels",
                                  "", Len(small_vessels),
                                  Len(small_vessels) * 300000 * 30, 2) >>
                      ELSE <<>>
    IN  few \o imbalanced

\* max(self.demands.items(), key=lambda x: x[1]): the first item of the
\* largest demand; the caller has made sure there is an item
MaxDemandItem(demands) ==
    LET i == CHOOSE k \in 1..Len(demands) :
                 /\ \A j \in 1..Len(demands) : demands[j][2] <= demands[k][2]
                 /\ \A j \in 1..(k - 1) : demands[j][2] < demands[k][2]
    IN  demands[i]

analyze_demand_distribution(demands) ==
    LET demand == MaxDemandItem(demands)[2]
        total_demand == TotalDemandOf(demands)
        reduction == demand - (total_demand \div 4)
    IN  IF 10 * demand > 3 * total_demand
        THEN << InfeasibilitySuggestion("reduce_demand_at", MaxDemandItem(demands)[1],
                                        reduction, 0, 3) >>
        ELSE <<>>

analyze_solver_settings(solve_time, num_workers) ==
    (IF solve_time < 120
     THEN << InfeasibilitySuggestion("increase_max_solve_time", "", solve_time, 0, 1) >>
     ELSE <<>>)
    \o
    (IF num_workers < 4
     THEN << InfeasibilitySuggestion("increase_worker_threads", "", num_workers, 0, 2) >>
     ELSE <<>>)

analyze_port_coverage(demands) ==
    LET high_demand_ports == SelectSeq(demands, LAMBDA item : item[2] > 35000)
    IN  [i \in 1..Len(high_demand_ports) |->
            InfeasibilitySuggestion("add_loading_port_near", high_demand_ports[i][1],
                                    high_demand_ports[i][2], 0, 3)]

\* the sort key of line 189, (s.priority, -s.cost_estimate), compared as tuples
SortKeyLeq(a, b) ==
    \/ a.priority < b.priority
    \/ a.priority = b.priority /\ (0 - a.cost_estimate) <= (0 - b.cost_estimate)

RECURSIVE SortSuggestions(_)
\* list.sort(key=...): stable, ascending in the key
SortSuggestions(s) ==
    IF s = <<>> THEN <<>>
    ELSE LET init == SortSuggestions(SubSeq(s, 1, Len(s) - 1))
             x == s[Len(s)]
             n == Cardinality({i \in 1..Len(init) : SortKeyLeq(init[i], x)})
         IN  SubSeq(init, 1, n) \o <<x>> \o SubSeq(init, n + 1, Len(init))

\* what a call raises instead of returning
Raised(exception) == [raised |-> exception]

\* generate_all_suggestions; max() of an empty dict raises ValueError
generate_all_suggestions(capacities, demands, solve_time, num_workers, port_distances) ==
    IF demands = <<>> THEN Raised("ValueError")
    ELSE SortSuggestions(
             analyze_capacity_shortage(capacities, demands)
             \o analyze_time_constraints(capacities, demands)
             \o analyze_vessel_constraints(capacities)
             \o analyze_demand_distribution(demands)
             \o analyze_solver_settings(solve_time, num_workers)
             \o (IF port_distances THEN analyze_port_coverage(demands) ELSE <<>>))

\* format_suggestions: the first five, with the priority as a label
format_suggestions(suggestions) ==
    LET top == SubSeq(suggestions, 1, Min(5, Len(suggestions)))
    IN  [total_suggestions |-> Len(suggestions),
         suggestions |->
             [i \in 1..Len(top) |->
                 [action |-> top[i].action, port |-> top[i].port, detail |-> top[i].detail,
                  cost_estimate_rs |-> top[i].cost_estimate,
                  priority |-> IF top[i].priority = 1 THEN "High"
                               ELSE IF top[i].priority = 2 THEN "Medium" ELSE "Low"]]]

\* analyze_infeasibility, lines 213-237
analyze_infeasibility(capacities, demands, solve_time, num_workers) ==
    IF demands = <<>> THEN Raised("ValueError")
    ELSE format_suggestions(generate_all_suggestions(capacities, demands, solve_time,
                                                     num_workers, FALSE))

(***************************************************************************)
(* The analyzer seen from a run of optimize_hpcl_fleet                     *)
(***************************************************************************)
\* the roster as the analyzer takes it: capacity_mt of each vessel
Capacities(vs) == [i \in 1..Len(vs) |-> vs[i].capacity_mt]

\* demand_dict.items() in whole MT, in the order of the unloading ports
DemandItems(dd, uports) ==
    [i \in 1..Len(uports) |-> <<uports[i].id, dd[uports[i].id] \div 10>>]

\* max_time_seconds and num_workers a run can be given
SolveTimes == {15, 120, 300}

WorkerCounts == {2, 4, 8}

\* the action texts of a formatted analysis, in its order
SuggestionActions(analysis) ==
    [i \in 1..Len(analysis.suggestions) |-> analysis.suggestions[i].action]

\* C11: whenever the solver has reported the model infeasible, the returned
\* result carries the ranked suggestions analyze_infeasibility gives for the
\* run's vessels and demands under some solver setting of the run.
C11_AnalyzerSuggestionsCarried ==
    (pc = "returned" /\ solver_status = "INFEASIBLE") =>
        \E solve_time \in SolveTimes, num_workers \in WorkerCounts :
            result.recommendations =
                SuggestionActions(analyze_infeasibility(
                    Capacities(vessels), DemandItems(demand_dict, unloading_ports),
                    solve_time, num_workers))

(***************************************************************************)
(* SpecAnalyzer: one call of InfeasibilityAnalyzer.generate_all_suggestions *)
(***************************************************************************)
\* optimize_hpcl_fleet is not under way
RunIdle ==
    /\ settings = {}
    /\ vessels = <<>>
    /\ loading_ports = <<>>
    /\ unloading_ports = <<>>
    /\ demand_dict = <<>>
    /\ optimization_objective = "cost"
    /\ fuel_price_per_mt \in FuelPrices
    /\ pc = "not_called"
    /\ generated_routes = <<>>
    /\ feasible_routes = <<>>
    /\ model = None
    /\ solver_status = "NOT_SOLVED"
    /\ solution = None
    /\ result = None

\* longest roster drawn freely
MaxAnalyzerVessels == 2

\* most ports in the demand map
MaxAnalyzerPorts == 3

AnalyzerCapacityValues == {5000, 25000, 100000}

\* rosters of capacity_mt, and one roster of five vessels
AnalyzerRosters ==
    SeqsUpTo(AnalyzerCapacityValues, MaxAnalyzerVessels) \cup {[i \in 1..5 |-> 25000]}

AnalyzerDemandValues == {0, 30000, 120000}

\* demand maps as items, over a prefix of the unloading ports
AnalyzerDemandMaps ==
    UNION {{[i \in 1..n |-> <<UnloadingOrder[i], mt[i]>>] :
                mt \in [1..n -> AnalyzerDemandValues]} :
           n \in 0..Min(MaxAnalyzerPorts, Len(UnloadingOrder))}

InitAnalyzer ==
    /\ RunIdle
    /\ EntryIdle
    /\ \E vs \in AnalyzerRosters, ds \in AnalyzerDemandMaps :
          analyzer = [vessels |-> vs, demands |-> ds]
    /\ \E st \in {60, 120}, nw \in {2, 4}, pd \in BOOLEAN :
          suggestion_call = [solve_time |-> st, num_workers |-> nw, port_distances |-> pd]
    /\ analyzer_pc = "called"
    /\ all_suggestions = <<>>
    /\ SingletonIdle
    /\ TripIdle

\* generate_all_suggestions returns its sorted list, or raises
GenerateAllSuggestions ==
    /\ analyzer_pc = "called"
    /\ LET returned == generate_all_suggestions(
                           analyzer.vessels, analyzer.demands,
                           suggestion_call.solve_time, suggestion_call.num_workers,
                           suggestion_call.port_distances)
       IN  IF analyzer.demands = <<>>
           THEN analyzer_pc' = "raised" /\ all_suggestions' = <<>>
           ELSE analyzer_pc' = "returned" /\ all_suggestions' = returned
    /\ UNCHANGED <<run_vars, entry_vars, singleton_vars, trip_vars, analyzer, suggestion_call>>

NextAnalyzer == GenerateAllSuggestions

SpecAnalyzer == InitAnalyzer /\ [][NextAnalyzer]_vars

\* C12: the list generate_all_suggestions returns is ordered by cost_estimate
\* ascending: an earlier suggestion never costs more than a later one.
C12_SuggestionsCostAscending ==
    analyzer_pc = "returned" =>
        \A i, j \in 1..Len(all_suggestions) :
            i < j => all_suggestions[i].cost_estimate <= all_suggestions[j].cost_estimate

(***************************************************************************)
(* SpecSingleton: background tasks of the API process (api/routes.py,      *)
(* _run_optimization_background), each awaiting optimize_hpcl_fleet of the *)
(* module-level hpcl_cp_sat_optimizer, scheduled by the one event loop of  *)
(* the process.  A task gives up the loop only where a coroutine it awaits *)
(* really suspends.  Tasks are numbered from 1; 0 stands for no task.  A   *)
(* CpModel, CpSolver or variable dict is identified by the task whose call *)
(* created it.                                                             *)
(***************************************************************************)
\* tasks started on the optimizer
MaxTasks == 2

\* most candidates the generator returns to a task
MaxTaskRoutes == 2

TaskIds == 1..MaxTasks

MetricKeys == {"route_generation_time", "model_setup_time", "solve_time", "total_time",
               "num_routes", "num_variables", "num_constraints"}

\* HPCLCPSATOptimizer.__init__; each metric is held as the task that wrote it
NewOptimizer ==
    [model |-> [built_by |-> 0],
     solver |-> [created_by |-> 0, solved |-> 0],
     cargo_flow_vars |-> [in_model |-> 0, keys |-> {}],
     metrics |-> [k \in MetricKeys |-> 0]]

NewTask(num_routes, db_lookup) ==
    [pc |-> "not_started",
     num_routes |-> num_routes,   \* candidates the generator will return
     db_lookup |-> db_lookup,     \* the distance matrix is not yet in memory
     overlapped |-> FALSE,        \* another task was under way when this one started
     feasible_routes |-> {},
     status |-> "NOT_SOLVED",
     values_read |-> [solver |-> 0, solved |-> 0, variables |-> 0],
     metrics_read |-> {},
     optimization_status |-> ""]

\* a scheduler that can switch tasks after every statement
SuspendsAfterEveryStep(position, task) == TRUE

\* where a task hands the event loop back before it returns: only inside
\* generate_optimized_route_set, at the await of the distance-matrix lookup
Suspends(position, task) == position = "generating" /\ task.db_lookup

\* the loop after task t has moved to the given position
LoopAfter(t, position, task) == IF Suspends(position, task) THEN 0 ELSE t

\* task t may take a step: it holds the loop, or nobody does
MayRun(t) == event_loop = t \/ event_loop = 0

InProgress(task) == task.pc \notin {"not_started", "returned"}

InitSingleton ==
    /\ RunIdle
    /\ EntryIdle
    /\ AnalyzerIdle
    /\ TripIdle
    /\ hpcl_cp_sat_optimizer = NewOptimizer
    /\ tasks \in [TaskIds -> {NewTask(n, db) : n \in 0..MaxTaskRoutes, db \in BOOLEAN}]
    /\ event_loop = 0

\* lines 64-93: up to the await of generate_optimized_route_set
StartRun(t) ==
    /\ tasks[t].pc = "not_started"
    /\ MayRun(t)
    /\ tasks' = [tasks EXCEPT ![t].pc = "generating",
                              ![t].overlapped = \E u \in TaskIds \ {t} : InProgress(tasks[u])]
    /\ event_loop' = LoopAfter(t, "generating", tasks[t])
    /\ UNCHANGED <<run_vars, entry_vars, analyzer_vars, trip_vars, hpcl_cp_sat_optimizer>>

\* lines 93-105: the generator returns; an empty list ends the run as an error
FinishGeneration(t) ==
    /\ tasks[t].pc = "generating"
    /\ MayRun(t)
    /\ hpcl_cp_sat_optimizer' =
          [hpcl_cp_sat_optimizer EXCEPT !.metrics["route_generation_time"] = t,
                                        !.metrics["num_routes"] = t]
    /\ IF tasks[t].num_routes = 0
       THEN /\ tasks' = [tasks EXCEPT ![t].pc = "returned",
                                      ![t].optimization_status = "error"]
            /\ event_loop' = 0
       ELSE /\ tasks' = [tasks EXCEPT ![t].pc = "routes_ready",
                                      ![t].feasible_routes = 1..tasks[t].num_routes]
            /\ event_loop' = LoopAfter(t, "routes_ready", tasks[t])
    /\ UNCHANGED <<run_vars, entry_vars, analyzer_vars, trip_vars>>

\* line 111, _initialize_cp_model
InitializeCpModel(t) ==
    /\ tasks[t].pc = "routes_ready"
    /\ MayRun(t)
    /\ hpcl_cp_sat_optimizer' =
          [hpcl_cp_sat_optimizer EXCEPT !.model = [built_by |-> t],
                                        !.solver = [created_by |-> t, solved |-> 0]]
    /\ tasks' = [tasks EXCEPT ![t].pc = "model_initialized"]
    /\ event_loop' = LoopAfter(t, "model_initialized", tasks[t])
    /\ UNCHANGED <<run_vars, entry_vars, analyzer_vars, trip_vars>>

\* lines 114-127: variables are created in self.model, whichever model that is
BuildCpModelOnSingleton(t) ==
    /\ tasks[t].pc = "model_initialized"
    /\ MayRun(t)
    /\ hpcl_cp_sat_optimizer' =
          [hpcl_cp_sat_optimizer EXCEPT
              !.cargo_flow_vars = [in_model |-> hpcl_cp_sat_optimizer.model.built_by,
                                   keys |-> tasks[t].feasible_routes],
              !.metrics["num_variables"] = t,
              !.metrics["num_constraints"] = t,
              !.metrics["model_setup_time"] = t]
    /\ tasks' = [tasks EXCEPT ![t].pc = "model_ready"]
    /\ event_loop' = LoopAfter(t, "model_ready", tasks[t])
    /\ UNCHANGED <<run_vars, entry_vars, analyzer_vars, trip_vars>>

\* lines 142-148: self.solver.Solve(self.model)
SolveOnSingleton(t) ==
    /\ tasks[t].pc = "model_ready"
    /\ MayRun(t)
    /\ \E status \in {"OPTIMAL", "FEASIBLE", "INFEASIBLE", "UNKNOWN"} :
          tasks' = [tasks EXCEPT ![t].pc = "solved", ![t].status = status]
    /\ hpcl_cp_sat_optimizer' =
          [hpcl_cp_sat_optimizer EXCEPT
              !.solver.solved = hpcl_cp_sat_optimizer.model.built_by,
              !.metrics["solve_time"] = t]
    /\ event_loop' = LoopAfter(t, "solved", tasks[t])
    /\ UNCHANGED <<run_vars, entry_vars, analyzer_vars, trip_vars>>

\* lines 162-178 with 514-517: the values are read through self.solver and
\* self.cargo_flow_vars
ProcessResultsOnSingleton(t) ==
    /\ tasks[t].pc = "solved"
    /\ MayRun(t)
    /\ tasks' =
          [tasks EXCEPT
              ![t].pc = "processed",
              ![t].values_read =
                  IF ResultBranch(tasks[t].status) = "extract"
                  THEN [solver |-> hpcl_cp_sat_optimizer.solver.created_by,
                        solved |-> hpcl_cp_sat_optimizer.solver.solved,
                        variables |-> hpcl_cp_sat_optimizer.cargo_flow_vars.in_model]
                  ELSE @,
              ![t].optimization_status =
                  IF ResultBranch(tasks[t].status) = "extract"
                  THEN (IF tasks[t].status = "OPTIMAL" THEN "optimal" ELSE "feasible")
                  ELSE IF ResultBranch(tasks[t].status) = "infeasibility"
                  THEN "infeasible" ELSE "error"]
    /\ event_loop' = LoopAfter(t, "processed", tasks[t])
    /\ UNCHANGED <<run_vars, entry_vars, analyzer_vars, trip_vars, hpcl_cp_sat_optimizer>>

\* lines 180-195: total_time is written, every metric is read for the final
\* log, and the call returns
FinalLog(t) ==
    /\ tasks[t].pc = "processed"
    /\ MayRun(t)
    /\ hpcl_cp_sat_optimizer' = [hpcl_cp_sat_optimizer EXCEPT !.metrics["total_time"] = t]
    /\ tasks' = [tasks EXCEPT
                    ![t].pc = "returned",
                    ![t].metrics_read =
                        {hpcl_cp_sat_optimizer'.metrics[k] : k \in MetricKeys}]
    /\ event_loop' = 0
    /\ UNCHANGED <<run_vars, entry_vars, analyzer_vars, trip_vars>>

NextSingleton ==
    \/ \E t \in TaskIds : StartRun(t)
    \/ \E t \in TaskIds : FinishGeneration(t)
    \/ \E t \in TaskIds : InitializeCpModel(t)
    \/ \E t \in TaskIds : BuildCpModelOnSingleton(t)
    \/ \E t \in TaskIds : SolveOnSingleton(t)
    \/ \E t \in TaskIds : ProcessResultsOnSingleton(t)
    \/ \E t \in TaskIds : FinalLog(t)

SpecSingleton == InitSingleton /\ [][NextSingleton]_vars

\* task t has built the model and not yet read its values back
HoldsModel(t) == tasks[t].pc \in {"model_initialized", "model_ready", "solved"}

\* C13: runs overlapping on the module-level optimizer never share a model,
\* solver or decision-variable map: while a run is between building its model
\* and reading the values, the optimizer holds that run's model, solver and
\* variables, and a run reads back values and metrics of its own model only.
C13_RunsKeepTheirOwnModel ==
    \A t \in DOMAIN tasks :
        /\ HoldsModel(t) =>
              /\ hpcl_cp_sat_optimizer.model.built_by = t
              /\ hpcl_cp_sat_optimizer.solver.created_by = t
              /\ tasks[t].pc # "model_initialized" =>
                    hpcl_cp_sat_optimizer.cargo_flow_vars.in_model = t
              /\ \A u \in DOMAIN tasks : HoldsModel(u) => u = t
        /\ (tasks[t].pc \in {"processed", "returned"}
              /\ tasks[t].optimization_status \in {"optimal", "feasible"}) =>
              tasks[t].values_read = [solver |-> t, solved |-> t, variables |-> t]
        /\ (tasks[t].pc = "returned" /\ tasks[t].optimization_status # "error") =>
              tasks[t].metrics_read = {t}

\* two runs overlapped in time and both read values back
C13_Witness ==
    /\ \E t \in DOMAIN tasks : tasks[t].overlapped
    /\ \A t \in DOMAIN tasks :
          /\ tasks[t].pc = "returned"
          /\ tasks[t].optimization_status \in {"optimal", "feasible"}

(***************************************************************************)
(* Claims on the candidate universe of a run and on the optimum            *)
(***************************************************************************)
\* route_id of every route of a list
RouteIds(routes) == {routes[i].route_id : i \in 1..Len(routes)}

\* C14: whatever the objective, the candidates that receive decision
\* variables are all the candidates generate_all_feasible_routes produced:
\* none is removed between generation and model construction.
C14_FullUniverseInModel ==
    (pc \in {"configure", "solve", "process", "returned"} /\ model # None) =>
        RouteIds(model.variables) = RouteIds(generated_routes)

\* the model the builder gives for the whole generated universe
UniverseModel ==
    BuildCpModel(generated_routes, vessels, unloading_ports, demand_dict,
                 optimization_objective)

\* summed total_cost of the routes an assignment activates
SummedTotalCost(routes, a) ==
    SumSeq([k \in 1..Len(routes) |-> routes[k].total_cost * a[k].active])

\* C15: with objective 'cost' and status 'optimal', the summed total_cost of
\* the selected voyages is minimal among the assignments over the generated
\* candidate universe that satisfy the demand, vessel-time and voyage-cap
\* constraints.
C15_CostOptimalOverUniverse ==
    (pc = "returned" /\ optimization_objective = "cost"
        /\ result.optimization_status = "optimal") =>
        \A a \in SatisfyingAssignments(UniverseModel) :
            SumSeq([k \in 1..Len(result.selected_routes) |->
                        result.selected_routes[k].total_cost])
              <= SummedTotalCost(generated_routes, a)

(***************************************************************************)
(* SpecCap: optimize_hpcl_fleet for one vessel with nine candidate voyages *)
(* (three unloading ports, an objective that keeps every candidate), so    *)
(* that the cap of eight voyages per vessel is the constraint that binds.  *)
(***************************************************************************)
\* <<monthly_available_hours, unloading ports>>: a vessel with 720 h and nine
\* candidate voyages, and one with 17 h, too few for its only candidate
CapInstances == {<<72000, UnloadingOrder>>, <<1700, SubSeq(UnloadingOrder, 1, 1)>>}

\* demands in tenths of an MT: 25000 MT at every port
CapDemandValues == {5 * DefaultVesselCapacity}

InitCap ==
    /\ \E instance \in CapInstances :
          /\ vessels = <<Vessel(VesselIds[1], DefaultVesselCapacity \div 2, instance[1])>>
          /\ unloading_ports = PortList(instance[2])
    /\ loading_ports = PortList(<<"L1">>)
    /\ optimization_objective = "emissions"
    /\ fuel_price_per_mt \in FuelPrices
    /\ settings \in SUBSET SettingsAttributes
    /\ demand_dict \in [SeqRange(Ids(unloading_ports)) -> CapDemandValues]
    /\ pc = "start"
    /\ generated_routes = <<>>
    /\ feasible_routes = <<>>
    /\ model = None
    /\ solver_status = "NOT_SOLVED"
    /\ solution = None
    /\ result = None
    /\ OutsideIdle

SpecCap == InitCap /\ [][Next]_vars

\* number of a vessel's routes the solver's assignment activates
ActiveVoyages(vessel_id) ==
    Cardinality({k \in VesselRoutes(feasible_routes, vessel_id) : solution[k].active > 0})

\* C16: in every assignment the solver returns each vessel has at most 8
\* active voyages, and total_voyages of every vessel schedule of a successful
\* result is at most 8.
C16_AtMostEightVoyages ==
    /\ SolverGaveAssignment =>
          \A i \in 1..Len(vessels) : ActiveVoyages(vessels[i].id) <= 8
    /\ Succeeded =>
          \A i \in 1..Len(result.vessel_schedules) :
              result.vessel_schedules[i].total_voyages <= 8

\* a vessel with nine candidate voyages sails exactly eight of them
C16_Witness ==
    /\ Succeeded
    /\ \E i \in 1..Len(vessels) :
          /\ Cardinality(VesselRoutes(feasible_routes, vessels[i].id)) > 8
          /\ result.vessel_schedules[i].total_voyages = 8

(***************************************************************************)
(* Claims on what a run does before the model is built                     *)
(***************************************************************************)
\* trips per vessel and month assumed by the capacity comparison
MaxTripsPerVessel == 10

\* sum of the monthly demands, in tenths of an MT
TotalDemand == SumOver(DOMAIN demand_dict, demand_dict)

\* sum(v.capacity_mt for v in vessels) * 10, in tenths of an MT
TotalCapacity == 10 * MaxTripsPerVessel * SumSeq(Capacities(vessels))

\* C17: the run compares total demand with total fleet capacity times the
\* trips-per-vessel bound before any variable or constraint is built; when
\* the demand exceeds it, no model is built, the solver is not invoked and
\* the run ends as infeasible.
C17_PreFlightStopsExcessDemand ==
    (pc # "start" /\ TotalDemand > TotalCapacity) =>
        /\ model = None
        /\ solver_status = "NOT_SOLVED"
        /\ pc = "returned" => result.optimization_status = "infeasible"

\* C18: when the pickup list or the drop-off list is empty the generator
\* returns an empty candidate list without raising, and optimize_hpcl_fleet
\* ends that run with status 'infeasible', not 'error'.
C18_EmptyUniverseIsInfeasible ==
    (pc = "returned" /\ (loading_ports = <<>> \/ unloading_ports = <<>>)) =>
        /\ generated_routes = <<>>
        /\ result.optimization_status = "infeasible"

(***************************************************************************)
(* SpecTrip: one call of calculate_trip_time_from_tables, for the ports of *)
(* the trip-time tables                                                    *)
(***************************************************************************)
\* longest list of discharge ports passed
TripMaxDischarge == 2

TripLoadingIds == DOMAIN TRIP_TIMES_LOAD_TO_UNLOAD

TripDischargeIds == DOMAIN TRIP_TIMES_UNLOAD_TO_UNLOAD

InitTrip ==
    /\ RunIdle
    /\ EntryIdle
    /\ AnalyzerIdle
    /\ SingletonIdle
    /\ \E l \in TripLoadingIds, ds \in SeqsUpTo(TripDischargeIds, TripMaxDischarge),
          service \in BOOLEAN, return \in BOOLEAN :
          trip_call = [loading_port_id |-> l, discharge_port_ids |-> ds,
                       include_service_time |-> service, include_return_trip |-> return]
    /\ trip_pc = "called"
    /\ trip_time = 0

CalculateTripTime ==
    /\ trip_pc = "called"
    /\ trip_time' = calculate_trip_time_from_tables(
                        trip_call.loading_port_id, trip_call.discharge_port_ids,
                        trip_call.include_service_time, trip_call.include_return_trip)
    /\ trip_pc' = "returned"
    /\ UNCHANGED <<run_vars, entry_vars, analyzer_vars, singleton_vars, trip_call>>

NextTrip == CalculateTripTime

SpecTrip == InitTrip /\ [][NextTrip]_vars

\* C19: without service time (and without the return leg) the time of a
\* single drop-off is the table time pickup -> d1, and for two distinct
\* drop-offs [d1, d2] it is table(pickup -> d1) + table(d1 -> d2), never
\* table(pickup -> d1) + table(pickup -> d2).
C19_SailingTimeFromTables ==
    (trip_pc = "returned" /\ ~trip_call.include_service_time
        /\ ~trip_call.include_return_trip) =>
        LET l == trip_call.loading_port_id
            ds == trip_call.discharge_port_ids
        IN  /\ Len(ds) = 1 => trip_time = TRIP_TIMES_LOAD_TO_UNLOAD[l][ds[1]]
            /\ (Len(ds) = 2 /\ ds[1] # ds[2]) =>
                  /\ trip_time = TRIP_TIMES_LOAD_TO_UNLOAD[l][ds[1]]
                                 + TRIP_TIMES_UNLOAD_TO_UNLOAD[ds[1]][ds[2]]
                  /\ trip_time # TRIP_TIMES_LOAD_TO_UNLOAD[l][ds[1]]
                                 + TRIP_TIMES_LOAD_TO_UNLOAD[l][ds[2]]

\* a sailing time of two distinct drop-offs has been returned
C19_Witness ==
    /\ trip_pc = "returned"
    /\ ~trip_call.include_service_time
    /\ ~trip_call.include_return_trip
    /\ Len(trip_call.discharge_port_ids) = 2
    /\ trip_call.discharge_port_ids[1] # trip_call.discharge_port_ids[2]
    /\ trip_time > 0

\* C20: for n = 1 or 2 drop-offs the time with service is the time without
\* service plus 6 h + 4 h * n; the round-trip flag adds exactly the table time
\* from the pickup to the last drop-off and leaves the service time as it is,
\* so the sailing time of a direct route doubles.
C20_ServiceAndReturnTime ==
    (trip_pc = "returned" /\ Len(trip_call.discharge_port_ids) \in {1, 2}) =>
        LET l == trip_call.loading_port_id
            ds == trip_call.discharge_port_ids
            n == Len(ds)
            service == trip_call.include_service_time
            return == trip_call.include_return_trip
        IN  /\ service =>
                  trip_time = calculate_trip_time_from_tables(l, ds, FALSE, return)
                              + 600 + 400 * n
            /\ return =>
                  trip_time = calculate_trip_time_from_tables(l, ds, service, FALSE)
                              + TRIP_TIMES_LOAD_TO_UNLOAD[l][ds[n]]
            /\ (return /\ ~service /\ n = 1) =>
                  trip_time = 2 * calculate_trip_time_from_tables(l, ds, FALSE, FALSE)

\* a round trip over two drop-offs with service time has been returned
C20_Witness ==
    /\ trip_pc = "returned"
    /\ trip_call.include_service_time
    /\ trip_call.include_return_trip
    /\ Len(trip_call.discharge_port_ids) = 2
    /\ trip_time > 1400

(***************************************************************************)
(* SpecTripAny: one call of calculate_trip_time_from_tables with port ids  *)
(* of the trip-time tables and ids the tables do not hold                  *)
(***************************************************************************)
TripAnyLoadingIds == TripLoadingIds \cup {"L7"}

TripAnyDischargeIds == TripDischargeIds \cup {"U12"}

InitTripAny ==
    /\ RunIdle
    /\ EntryIdle
    /\ AnalyzerIdle
    /\ SingletonIdle
    /\ \E l \in TripAnyLoadingIds, ds \in SeqsUpTo(TripAnyDischargeIds, TripMaxDischarge),
          service \in BOOLEAN, return \in BOOLEAN :
          trip_call = [loading_port_id |-> l, discharge_port_ids |-> ds,
                       include_service_time |-> service, include_return_trip |-> return]
    /\ trip_pc = "called"
    /\ trip_time = 0

SpecTripAny == InitTripAny /\ [][NextTrip]_vars

\* the pickup -> drop-off table has no entry for the pair
MissingLoadToUnload(l, u) ==
    \/ l \notin DOMAIN TRIP_TIMES_LOAD_TO_UNLOAD
    \/ u \notin DOMAIN TRIP_TIMES_LOAD_TO_UNLOAD[l]

\* the drop-off -> drop-off table has no entry for the pair
MissingUnloadToUnload(a, b) ==
    \/ a \notin DOMAIN TRIP_TIMES_UNLOAD_TO_UNLOAD
    \/ b \notin DOMAIN TRIP_TIMES_UNLOAD_TO_UNLOAD[a]

\* C21: for every pickup id and every non-empty list of distinct drop-off
\* ids, in the tables or not, each leg of the sailing time is strictly
\* positive (a missing pickup -> drop-off entry counts 0.5 day, a missing
\* drop-off -> drop-off entry 0.2 day), so the sailing time is never 0; for
\* the pickups and drop-offs of the tables the direct sailing time lies
\* strictly between 0 and 10 days.
C21_EveryLegPositive ==
    (/\ trip_pc = "returned"
     /\ ~trip_call.include_service_time /\ ~trip_call.include_return_trip
     /\ trip_call.discharge_port_ids # <<>>
     /\ IsDistinct(trip_call.discharge_port_ids)) =>
        LET l == trip_call.loading_port_id
            ds == trip_call.discharge_port_ids
            first_leg == IF Len(ds) = 1 THEN trip_time
                         ELSE calculate_trip_time_from_tables(l, <<ds[1]>>, FALSE, FALSE)
        IN  /\ trip_time > 0
            /\ first_leg > 0
            /\ MissingLoadToUnload(l, ds[1]) => first_leg = 1200
            /\ Len(ds) = 2 =>
                  /\ trip_time - first_leg > 0
                  /\ MissingUnloadToUnload(ds[1], ds[2]) => trip_time - first_leg = 480
            /\ (Len(ds) = 1 /\ l \in TripLoadingIds /\ ds[1] \in TripDischargeIds) =>
                  trip_time < 24000

\* a sailing time whose two legs are both missing from the tables
C21_Witness ==
    /\ trip_pc = "returned"
    /\ ~trip_call.include_service_time /\ ~trip_call.include_return_trip
    /\ trip_call.loading_port_id = "L7"
    /\ trip_call.discharge_port_ids = <<"U12", "U1">>
    /\ trip_time = 1680

\* the record of the port with this id in a port list
PortOf(ports, port_id) == CHOOSE p \in SeqRange(ports) : p.id = port_id

\* C22: for every generated candidate, total cost = charter cost (total time
\* in days x the vessel's daily rate) + port charges (the per-call charge of
\* the pickup plus that of every visited drop-off, as given on the port
\* records) + fuel cost (fuel burn per day x sailing days x fuel price), and
\* the cost_breakdown components charter_cost + port_charges + fuel_cost
\* equal its total_cost.
C22_CostDecomposition ==
    \A k \in 1..Len(generated_routes) :
        LET r == generated_routes[k]
            v == VesselOf(r.vessel_id)
            b == r.cost_breakdown
            charges == PortOf(loading_ports, r.loading_port).port_charges_per_visit
                       + SumSeq([i \in 1..Len(r.discharge_ports) |->
                                    PortOf(unloading_ports, r.discharge_ports[i])
                                        .port_charges_per_visit])
        IN  /\ b.charter_cost = r.total_time_hours * v.daily_charter_rate
            /\ b.port_charges = 2400 * charges
            /\ b.fuel_cost = v.fuel_consumption_mt_per_day * r.sailing_time_hours
                               * fuel_price_per_mt
            /\ b.total_cost = b.charter_cost + b.port_charges + b.fuel_cost
            /\ r.total_cost = RoundDiv(b.total_cost, 24)

(***************************************************************************)
(* SpecValidate: one construction of an input record of models/schemas.py. *)
(* A record is given by the fields its Field bounds and validators read;   *)
(* hours in hundredths of an hour, demand in tenths of an MT, capacity in  *)
(* whole MT, coordinates in whole degrees.                                 *)
(***************************************************************************)
VesselCapacityInputs == {0 - 1000, 0, 25000, 50000, 100000}

\* monthly_available_hours: 0, 360, 720, 720.01 and 800 hours
VesselHoursInputs == {0, 36000, 72000, 72001, 80000}

\* demand_mt: -1000, 0, 50000, 100000 and 2000000 MT
DemandInputs == {0 - 10000, 0, 500000, 1000000, 20000000}

LatitudeInputs == {0 - 91, 0 - 90, 0, 90, 91}

LongitudeInputs == {0 - 181, 0 - 180, 0, 180, 181}

RecordCalls ==
    {[class |-> "HPCLVessel", capacity_mt |-> c, monthly_available_hours |-> h] :
        c \in VesselCapacityInputs, h \in VesselHoursInputs}
    \cup {[class |-> "MonthlyDemand", demand_mt |-> d] : d \in DemandInputs}
    \cup {[class |-> "HPCLPort", latitude |-> lat, longitude |-> lon] :
             lat \in LatitudeInputs, lon \in LongitudeInputs}

InitValidate ==
    /\ RunIdle
    /\ AnalyzerIdle
    /\ SingletonIdle
    /\ TripIdle
    /\ BackgroundIdle
    /\ record_call \in RecordCalls
    /\ record_pc = "called"

\* HPCLVessel(...): validate_capacity is the only check on the fields held
ConstructVessel ==
    /\ record_pc = "called"
    /\ record_call.class = "HPCLVessel"
    /\ record_pc' = IF record_call.capacity_mt <= 0 THEN "raised" ELSE "constructed"
    /\ UNCHANGED <<run_vars, analyzer_vars, singleton_vars, trip_vars, background_vars,
                   record_call>>

\* MonthlyDemand(...): Field(ge=0), then validate_demand
ConstructDemand ==
    /\ record_pc = "called"
    /\ record_call.class = "MonthlyDemand"
    /\ record_pc' = IF ~ (record_call.demand_mt >= 0) THEN "raised"
                    ELSE IF record_call.demand_mt < 0 THEN "raised"
                    ELSE "constructed"
    /\ UNCHANGED <<run_vars, analyzer_vars, singleton_vars, trip_vars, background_vars,
                   record_call>>

\* HPCLPort(...): Field(ge=-90, le=90) and Field(ge=-180, le=180)
ConstructPort ==
    /\ record_pc = "called"
    /\ record_call.class = "HPCLPort"
    /\ record_pc' = IF /\ record_call.latitude >= 0 - 90 /\ record_call.latitude <= 90
                       /\ record_call.longitude >= 0 - 180 /\ record_call.longitude <= 180
                    THEN "constructed" ELSE "raised"
    /\ UNCHANGED <<run_vars, analyzer_vars, singleton_vars, trip_vars, background_vars,
                   record_call>>

NextValidate ==
    \/ ConstructVessel
    \/ ConstructDemand
    \/ ConstructPort

SpecValidate == InitValidate /\ [][NextValidate]_vars

\* C23: a vessel whose monthly_available_hours exceeds 720 and a monthly
\* demand that is unrealistically high (2,000,000 MT) are rejected with a
\* validation error when the record is constructed.
C23_OutOfBoundsRecordsRejected ==
    record_pc \in {"constructed", "raised"} =>
        /\ (record_call.class = "HPCLVessel"
            /\ record_call.monthly_available_hours > 72000) => record_pc = "raised"
        /\ (record_call.class = "MonthlyDemand"
            /\ record_call.demand_mt >= 20000000) => record_pc = "raised"

\* the routes of a vessel that the returned assignment makes active
ActiveRoutes(vessel_id) ==
    {k \in VesselRoutes(feasible_routes, vessel_id) : solution[k].active = 1}

\* C24: for every vessel of a successful result, the utilized hours the
\* extractor reports (utilization_percentage x monthly_available_hours / 100)
\* equal the left-hand side of the vessel's time-budget constraint, the sum of
\* the total time of its active routes; stated in 1/600 hour, with the half
\* hour per route that rounding the constraint's coefficients can move.
C24_UtilizedHoursMatchConstraint ==
    Succeeded =>
        \A i \in 1..Len(vessels) :
            LET mine == ActiveRoutes(vessels[i].id)
                lhs == 6 * SumOver(mine, [k \in mine |-> feasible_routes[k].total_time_hours])
                utilized == result.vessel_schedules[i].utilized_time
                slack == 300 * Cardinality(mine)
            IN  /\ utilized - lhs <= slack
                /\ lhs - utilized <= slack

(***************************************************************************)
(* SpecExtract: _extract_optimization_result applied to any values of the  *)
(* route variables, whether or not they satisfy the constraints, and to    *)
(* vessels with any hours.                                                 *)
(***************************************************************************)
\* <<capacity_mt, monthly_available_hours>>: 0, 17 and 720 hours
ExtractVesselKinds == {<<25000, 0>>, <<25000, 1700>>, <<25000, 72000>>}

ExtractFleets ==
    UNION {{[i \in 1..n |-> Vessel(VesselIds[i], kinds[i][1], kinds[i][2])] :
                kinds \in [1..n -> ExtractVesselKinds]} :
           n \in 1..Min(MaxVessels, Len(VesselIds))}

ExtractUnloadingLists ==
    {PortList(SubSeq(UnloadingOrder, 1, n)) : n \in 1..Min(2, Len(UnloadingOrder))}

ExtractDemandValues == {0, 5 * DefaultVesselCapacity + 4}

InitExtract ==
    /\ vessels \in ExtractFleets
    /\ loading_ports = PortList(<<"L1">>)
    /\ unloading_ports \in ExtractUnloadingLists
    /\ optimization_objective = "balanced"
    /\ fuel_price_per_mt \in FuelPrices
    /\ generated_routes = GenerateAllFeasibleRoutes(vessels, loading_ports,
                                                    unloading_ports, fuel_price_per_mt)
    /\ feasible_routes = generated_routes
    /\ Len(feasible_routes) <= MaxModelRoutes
    /\ settings = SettingsAttributes
    /\ demand_dict \in [SeqRange(Ids(unloading_ports)) -> ExtractDemandValues]
    /\ model = BuildCpModel(feasible_routes, vessels, unloading_ports, demand_dict,
                            optimization_objective)
    /\ solver_status \in {"OPTIMAL", "FEASIBLE"}
    /\ solution \in Assignments(model)
    /\ pc = "process"
    /\ result = None
    /\ OutsideIdle

NextExtract == ProcessResult

SpecExtract == InitExtract /\ [][NextExtract]_vars

VoyagePattern(route) ==
    << <<"loading", route.loading_port>> >>
    \o Flatten([i \in 1..Len(route.discharge_ports) |->
           << <<"sailing", "at_sea">>, <<"unloading", route.discharge_ports[i]>> >>])
    \o << <<"idle", "port">> >>

\* the selected routes of a vessel, in the order of the result
SelectedOf(vessel_id) ==
    SelectSeq(result.selected_routes, LAMBDA r : r.vessel_id = vessel_id)

\* C26: in every vessel schedule the activities form one contiguous
\* chronological chain: each selected voyage contributes loading, then per
\* drop-off in visiting order sailing followed by unloading at that drop-off,
\* then idle; every activity starts exactly when the previous one ends, ends
\* no earlier than it starts, and no two activities of a vessel overlap.
C26_ActivitiesFormOneChain ==
    Succeeded =>
        \A i \in 1..Len(result.vessel_schedules) :
            LET acts == result.vessel_schedules[i].activities
                mine == SelectedOf(result.vessel_schedules[i].vessel_id)
                pattern == Flatten([k \in 1..Len(mine) |-> VoyagePattern(mine[k])])
            IN  /\ Len(acts) = Len(pattern)
                /\ \A a \in 1..Len(acts) :
                      /\ acts[a].activity_type = pattern[a][1]
                      /\ acts[a].location = pattern[a][2]
                      /\ acts[a].end_time >= acts[a].start_time
                      /\ a > 1 => acts[a].start_time = acts[a - 1].end_time
                /\ \A a \in 1..Len(acts) : \A b \in (a + 1)..Len(acts) :
                      \/ acts[a].end_time <= acts[b].start_time
                      \/ acts[b].end_time <= acts[a].start_time

\* a vessel sails a direct and a split voyage one after the other
C26_Witness ==
    /\ Succeeded
    /\ \E i \in 1..Len(result.vessel_schedules) :
          LET mine == SelectedOf(result.vessel_schedules[i].vessel_id)
          IN  /\ \E k \in 1..Len(mine) : Len(mine[k].discharge_ports) = 1
              /\ \E k \in 1..Len(mine) : Len(mine[k].discharge_ports) = 2
              /\ Len(result.vessel_schedules[i].activities) >= 10

\* C27: in every successful result a drop-off port whose demand is zero, or
\* absent from the demand map, receives zero delivered mass, and
\* demand_satisfaction_rate never exceeds 100.
C27_NoDeliveryWithoutDemand ==
    Succeeded =>
        /\ \A p \in UnloadingIds :
              DemandGet(demand_dict, p) = 0 => result.demands_met[p] = 0
        /\ result.demand_satisfaction_rate <= 100

\* C28: every route listed in selected_routes of a result with status
\* 'optimal' or 'feasible' carries strictly positive cargo.
C28_SelectedRoutesCarryCargo ==
    Succeeded =>
        \A k \in 1..Len(result.selected_routes) :
            result.selected_routes[k].cargo_quantity > 0

\* C29: optimize_hpcl_fleet never propagates an exception to its caller:
\* every call ends by returning an OptimizationResult whose status is one of
\* optimal, feasible, infeasible, error.
C29_NeverPropagatesException ==
    /\ pc # "raised"
    /\ pc = "returned" =>
          result.optimization_status \in {"optimal", "feasible", "infeasible", "error"}

(***************************************************************************)
(* SpecBackground: optimization requests submitted to the API, each run by *)
(* _run_optimization_background (api/routes.py), with their records in the *)
(* tasks collection (TaskDB, models/database.py).  An operation on a        *)
(* connected database either succeeds or raises; the in-memory fallback     *)
(* does not raise.                                                          *)
(***************************************************************************)
MaxBackgroundTasks == 2

BackgroundTaskIds == 1..MaxBackgroundTasks

InitBackground ==
    /\ RunIdle
    /\ AnalyzerIdle
    /\ SingletonIdle
    /\ TripIdle
    /\ ValidationIdle
    /\ db_connected \in BOOLEAN
    /\ db_tasks = <<>>
    /\ background_pc = [t \in BackgroundTaskIds |-> "not_submitted"]

\* the outcomes of an awaited database operation
DbOutcomes == IF db_connected THEN {"done", "raised"} ELSE {"done"}

\* TaskDB.update_task_status on the record of task t
UpdateTaskStatus(t, status, progress) ==
    [db_tasks EXCEPT ![t].status = status, ![t].progress = progress]

\* optimize_fleet, lines 245-257: TaskDB.create_task, then add_task
SubmitOptimization(t) ==
    /\ background_pc[t] = "not_submitted"
    /\ db_tasks' = (t :> [status |-> "pending", progress |-> 0, has_result |-> FALSE])
                   @@ db_tasks
    /\ background_pc' = [background_pc EXCEPT ![t] = "queued"]
    /\ UNCHANGED <<run_vars, analyzer_vars, singleton_vars, trip_vars, validation_vars,
                   db_connected>>

\* the three update_task_status(task_id, "processing", ...) of lines 450, 461
\* and 474
ReportProcessing(t) ==
    /\ background_pc[t] \in {"queued", "loaded", "optimized"}
    /\ \E outcome \in DbOutcomes :
          IF outcome = "done"
          THEN /\ db_tasks' = UpdateTaskStatus(t, "processing",
                                  IF background_pc[t] = "queued" THEN 5
                                  ELSE IF background_pc[t] = "loaded" THEN 20 ELSE 90)
               /\ background_pc' = [background_pc EXCEPT ![t] =
                                       IF background_pc[t] = "queued" THEN "loading"
                                       ELSE IF background_pc[t] = "loaded" THEN "optimizing"
                                       ELSE "saving"]
          ELSE /\ db_tasks' = db_tasks
               /\ background_pc' = [background_pc EXCEPT ![t] = "except"]
    /\ UNCHANGED <<run_vars, analyzer_vars, singleton_vars, trip_vars, validation_vars,
                   db_connected>>

\* lines 453-459: the fleet and the ports are read and their records built
LoadFleetData(t) ==
    /\ background_pc[t] = "loading"
    /\ \E outcome \in {"done", "raised"} :
          background_pc' = [background_pc EXCEPT ![t] =
                               IF outcome = "done" THEN "loaded" ELSE "except"]
    /\ UNCHANGED <<run_vars, analyzer_vars, singleton_vars, trip_vars, validation_vars,
                   db_connected, db_tasks>>

\* lines 464-472: hpcl_cp_sat_optimizer.optimize_hpcl_fleet returns or raises
RunOptimization(t) ==
    /\ background_pc[t] = "optimizing"
    /\ \E outcome \in {"done", "raised"} :
          background_pc' = [background_pc EXCEPT ![t] =
                               IF outcome = "done" THEN "optimized" ELSE "except"]
    /\ UNCHANGED <<run_vars, analyzer_vars, singleton_vars, trip_vars, validation_vars,
                   db_connected, db_tasks>>

\* lines 477-479: OptimizationResultDB.save_result
SaveOptimizationResult(t) ==
    /\ background_pc[t] = "saving"
    /\ \E outcome \in DbOutcomes :
          background_pc' = [background_pc EXCEPT ![t] =
                               IF outcome = "done" THEN "saved" ELSE "except"]
    /\ UNCHANGED <<run_vars, analyzer_vars, singleton_vars, trip_vars, validation_vars,
                   db_connected, db_tasks>>

\* line 481: update_task_status(task_id, "completed", 100, ...)
MarkCompleted(t) ==
    /\ background_pc[t] = "saved"
    /\ \E outcome \in DbOutcomes :
          IF outcome = "done"
          THEN /\ db_tasks' = UpdateTaskStatus(t, "completed", 100)
               /\ background_pc' = [background_pc EXCEPT ![t] = "marked_completed"]
          ELSE /\ db_tasks' = db_tasks
               /\ background_pc' = [background_pc EXCEPT ![t] = "except"]
    /\ UNCHANGED <<run_vars, analyzer_vars, singleton_vars, trip_vars, validation_vars,
                   db_connected>>

\* line 482: TaskDB.save_task_result, still inside the try block
SaveTaskResult(t) ==
    /\ background_pc[t] = "marked_completed"
    /\ \E outcome \in DbOutcomes :
          IF outcome = "done"
          THEN /\ db_tasks' = [db_tasks EXCEPT ![t].has_result = TRUE]
               /\ background_pc' = [background_pc EXCEPT ![t] = "finished"]
          ELSE /\ db_tasks' = db_tasks
               /\ background_pc' = [background_pc EXCEPT ![t] = "except"]
    /\ UNCHANGED <<run_vars, analyzer_vars, singleton_vars, trip_vars, validation_vars,
                   db_connected>>

\* lines 484-485: except Exception: update_task_status(task_id, "failed", 0, ...)
HandleException(t) ==
    /\ background_pc[t] = "except"
    /\ \E outcome \in DbOutcomes :
          IF outcome = "done"
          THEN /\ db_tasks' = UpdateTaskStatus(t, "failed", 0)
               /\ background_pc' = [background_pc EXCEPT ![t] = "finished"]
          ELSE /\ db_tasks' = db_tasks
               /\ background_pc' = [background_pc EXCEPT ![t] = "raised"]
    /\ UNCHANGED <<run_vars, analyzer_vars, singleton_vars, trip_vars, validation_vars,
                   db_connected>>

NextBackground ==
    \/ \E t \in BackgroundTaskIds : SubmitOptimization(t)
    \/ \E t \in BackgroundTaskIds : ReportProcessing(t)
    \/ \E t \in BackgroundTaskIds : LoadFleetData(t)
    \/ \E t \in BackgroundTaskIds : RunOptimization(t)
    \/ \E t \in BackgroundTaskIds : SaveOptimizationResult(t)
    \/ \E t \in BackgroundTaskIds : MarkCompleted(t)
    \/ \E t \in BackgroundTaskIds : SaveTaskResult(t)
    \/ \E t \in BackgroundTaskIds : HandleException(t)

SpecBackground == InitBackground /\ [][NextBackground]_vars

\* the moves of a task's recorded status the claim allows in one step (a
\* task that fails before its first progress report goes from pending to
\* failed, which is counted as allowed)
StatusMoveAllowed(from, to) ==
    \/ from = to
    \/ from = "pending" /\ to \in {"processing", "failed"}
    \/ from = "processing" /\ to \in {"completed", "failed"}

\* C30: a background optimization task's recorded status only moves
\* pending -> processing -> (completed | failed), and 'completed' is final:
\* once the status is 'completed' no later step, whatever its outcome,
\* overwrites it with 'failed' or 'processing'.
C30_CompletedIsFinal ==
    [][\A t \in DOMAIN db_tasks :
          StatusMoveAllowed(db_tasks[t].status, db_tasks'[t].status)]_vars

====
